---------------------------- MODULE Spec2Model ----------------------------
(***************************************************************************)
(* A model of the TrustArc SDK diagnostic tool (src/lib/diagnose.py).      *)
(*                                                                         *)
(* The project tree is a sequence of files in discovery order; every file  *)
(* carries its path, whether it can be read, its text and the value        *)
(* json.load gives for it.  File texts are TLA+ strings, and every pattern *)
(* of the source (substring tests, lower(), split, the regular             *)
(* expressions) is computed on the characters of those strings.            *)
(***************************************************************************)
EXTENDS Integers, Sequences, FiniteSets, TLC

(***************************************************************************)
(* Bounds of the model.                                                    *)
(***************************************************************************)
\* Longest issue list handed to calculate_score in SpecScore.
MaxIssues == 4
\* Longest file (in lines) handed to the same-file ordering check in SpecOrder.
MaxLines == 5
\* Most Kotlin/Java source files of an Android project tree.
MaxSrc == 2
MaxAnalyzed == 3

(***************************************************************************)
(* Python values.                                                          *)
(***************************************************************************)
\* Optional[str] = None (file_path, suggestion)
None == "None"
\* Optional[int] = None (line_number); line numbers are 1-based
NoLine == 0

ERROR == "error"
WARNING == "warning"
INFO == "info"
SUCCESS == "success"
Severity == {ERROR, WARNING, INFO, SUCCESS}

ANDROID == "android"
IOS == "ios"
REACT_NATIVE == "react-native"
FLUTTER == "flutter"
UNKNOWN == "unknown"
Platform == {ANDROID, IOS, REACT_NATIVE, FLUTTER, UNKNOWN}

Issue(sev, cat, msg, fp, ln, sug) ==
    [severity |-> sev, category |-> cat, message |-> msg,
     file_path |-> fp, line_number |-> ln, suggestion |-> sug]

\* len([i for i in issues if i.severity == sev])
CountSev(iss, sev) == Cardinality({k \in 1..Len(iss) : iss[k].severity = sev})

(***************************************************************************)
(* Strings: str methods and the `in` operator, on characters.              *)
(***************************************************************************)
Max(a, b) == IF a >= b THEN a ELSE b
Min(a, b) == IF a <= b THEN a ELSE b

\* s[i] (1-based), "" past the end
CharAt(s, i) == IF i >= 1 /\ i <= Len(s) THEN SubSeq(s, i, i) ELSE ""

\* does needle n occur in s starting at position i (1-based)
OccursAt(n, s, i) ==
    /\ i >= 1
    /\ i + Len(n) - 1 <= Len(s)
    /\ SubSeq(s, i, i + Len(n) - 1) = n

\* n in s
Contains(s, n) == \E i \in 1..(Len(s) - Len(n) + 1) : OccursAt(n, s, i)

StartsWith(s, n) == OccursAt(n, s, 1)
EndsWith(s, n) == Len(n) <= Len(s) /\ OccursAt(n, s, Len(s) - Len(n) + 1)

UpperChars == <<"A","B","C","D","E","F","G","H","I","J","K","L","M",
                "N","O","P","Q","R","S","T","U","V","W","X","Y","Z">>
LowerChars == <<"a","b","c","d","e","f","g","h","i","j","k","l","m",
                "n","o","p","q","r","s","t","u","v","w","x","y","z">>

LowerChar(c) ==
    IF \E k \in 1..26 : UpperChars[k] = c
    THEN LowerChars[CHOOSE k \in 1..26 : UpperChars[k] = c]
    ELSE c

RECURSIVE Lower(_)
\* str.lower(), by halves
Lower(s) ==
    IF Len(s) <= 1 THEN LowerChar(s)
    ELSE LET h == Len(s) \div 2
         IN  Lower(SubSeq(s, 1, h)) \o Lower(SubSeq(s, h + 1, Len(s)))

\* position of the first "\n" at or after i, or Len(s)+1
NextNewline(s, i) ==
    IF \E j \in i..Len(s) : CharAt(s, j) = "\n"
    THEN CHOOSE j \in i..Len(s) :
            CharAt(s, j) = "\n" /\ \A k \in i..(j - 1) : CharAt(s, k) # "\n"
    ELSE Len(s) + 1

RECURSIVE SplitFrom(_, _)
SplitFrom(s, i) ==
    LET j == NextNewline(s, i)
    IN  IF j > Len(s) THEN <<SubSeq(s, i, Len(s))>>
        ELSE <<SubSeq(s, i, j - 1)>> \o SplitFrom(s, j + 1)

\* content.split('\n')
SplitLines(s) == SplitFrom(s, 1)

RECURSIVE JoinLines(_)
\* '\n'.join(lines)
JoinLines(ls) ==
    IF Len(ls) = 0 THEN ""
    ELSE IF Len(ls) = 1 THEN ls[1]
    ELSE ls[1] \o "\n" \o JoinLines(Tail(ls))

IsSpace(c) == c \in {" ", "\t", "\n", "\r"}
IsDigit(c) == c \in {"0","1","2","3","4","5","6","7","8","9"}
IsWordChar(c) ==
    \/ IsDigit(c)
    \/ c = "_"
    \/ \E k \in 1..26 : UpperChars[k] = c \/ LowerChars[k] = c

\* every character of s in positions a..b satisfies whitespace
AllSpace(s, a, b) == \A k \in a..b : IsSpace(CharAt(s, k))
AllWord(s, a, b) == \A k \in a..b : IsWordChar(CharAt(s, k))
AllDigit(s, a, b) == \A k \in a..b : IsDigit(CharAt(s, k))

\* re.search(lit \s* ch, s) for a literal lit and a character ch
SearchLitSpaceChar(lit, s, ch) ==
    \E i \in 1..Len(s) :
        /\ OccursAt(lit, s, i)
        /\ \E j \in (i + Len(lit))..Len(s) :
              /\ AllSpace(s, i + Len(lit), j - 1)
              /\ CharAt(s, j) = ch

\* re.search(lit \s* \( , s): the shape of sdk_constructor, sdk_start, enableDebugLog
SearchLitParen(lit, s) == SearchLitSpaceChar(lit, s, "(")


\* repr() of a str inside a list, without the escapes of quotes and backslashes
Repr(s) == "'" \o s \o "'"

RECURSIVE ListItems(_)
ListItems(ls) ==
    IF Len(ls) = 0 THEN ""
    ELSE IF Len(ls) = 1 THEN Repr(ls[1])
    ELSE Repr(ls[1]) \o ", " \o ListItems(Tail(ls))

\* list.__str__()
ListStr(ls) == "[" \o ListItems(ls) \o "]"

\* lines[a:b] for 0 <= a <= b <= len(lines), 0-based, b exclusive
Slice(ls, a, b) == SubSeq(ls, a + 1, b)

VARIABLES
    tree,          \* the project tree: files in discovery order
    platform,      \* ProjectDiagnostic.platform
    pc,            \* position in main / run_diagnostic / scan
    issues,        \* the issue list of the RuleSet that is scanning
    report,        \* the DiagnosticReport returned by the last run_diagnostic
    first_report,  \* the report of the first run, kept to compare a re-run
    exit_code,     \* status handed to sys.exit
    arg,           \* arguments of a function applied on its own
    ret            \* its result

vars == <<tree, platform, pc, issues, report, first_report, exit_code, arg, ret>>

(***************************************************************************)
(* The texts of the files project trees are made of.                       *)
(***************************************************************************)
PubspecPlain == "name: app\ndependencies:\n  http: ^1.0.0"
PubspecFlutter == "name: app\ndependencies:\n  flutter:\n    sdk: flutter"
PubspecFlutterCaps == "name: app\ndescription: A new Flutter project.\ndependencies:\n  http: ^1.0.0"
PubspecFlutterSdk == "name: app\ndependencies:\n  flutter:\n    sdk: flutter\n  flutter_trustarc_mobile_consent_sdk:\n    git: trustarc"

GradlePlain == "dependencies {\n  implementation(\"androidx.core:core-ktx:1.12.0\")\n}"
GradleSdk == "dependencies {\n  implementation(\"com.trustarc:trustarc-consent-sdk:2025.04.2\")\n}"
GradleAlias == "dependencies {\n  implementation(libs.trustarc.consent.sdk)\n}"
TomlVersioned == "[versions]\ntrustarcConsentSdk = \"2025.04.2\"\n[libraries]\ntrustarc-consent-sdk = { module = \"com.trustarc:trustarc-consent-sdk\" }"
TomlUnversioned == "[libraries]\ntrustarc-consent-sdk = { module = \"com.trustarc:trustarc-consent-sdk\" }"

ManifestInternet == "<manifest>\n<uses-permission android:name=\"android.permission.INTERNET\" />\n</manifest>"
ManifestBoth == "<manifest>\n<uses-permission android:name=\"android.permission.INTERNET\" />\n<uses-permission android:name=\"android.permission.ACCESS_NETWORK_STATE\" />\n</manifest>"

SdkImport == "import com.truste.androidmobileconsentsdk.TrustArc\n"
KtPlain == "class Util {\n  fun id(x: Int) = x\n}"
KtDirectOk == SdkImport \o "class MainActivity {\n  fun onCreate() {\n    val trustArc = TrustArc(this, SdkMode.Standard)\n    trustArc.start(\"example.com\")\n  }\n}"
KtDirectReversed == SdkImport \o "class MainActivity {\n  fun go() {\n    trustArc.start(\"example.com\")\n  }\n  val trustArc = TrustArc(this, SdkMode.Standard)\n}"
KtCtorOnly == SdkImport \o "class Holder {\n  val trustArc = TrustArc(this, SdkMode.Standard)\n}"
KtStartOnly == SdkImport \o "class Screen {\n  fun go(trustArc: TrustArc) {\n    trustArc.start(\"example.com\")\n  }\n}"
KtStartSingleton == SdkImport \o "class Screen {\n  fun go() {\n    TASharedInstance.getSdkInstance().start(\"example.com\")\n  }\n}"
KtProvider == SdkImport \o "@Module\nobject SdkModule {\n  @Provides fun provideTrustArc(): TrustArc = build()\n}"
KtManagerInjected == SdkImport \o "class ConsentManager @Inject constructor(val trustArc: TrustArc) {\n  fun begin() {\n    trustArc.start(\"example.com\")\n  }\n}"
KtManagerPlain == SdkImport \o "class TrustArcManager(val trustArc: TrustArc) {\n  fun begin() {\n    trustArc.start(\"example.com\")\n  }\n}"
KtAppHilt == "@HiltAndroidApp\nclass App : Application() {\n  override fun onCreate() {\n    consent.initialize()\n  }\n}"
KtDebug == SdkImport \o "class Debug {\n  fun on(trustArc: TrustArc) {\n    trustArc.enableDebugLog(true)\n  }\n}"

PackageSwiftSdk == "dependencies: [\n  .package(url: \"https://github.com/trustarc/trustarc-mobile-consent.git\", from: \"2025.4.2\")\n]"
PackageSwiftPlain == "dependencies: [\n  .package(url: \"https://github.com/a/b.git\", from: \"1.0.0\")\n]"
PodfileSdk == "target 'App' do\n  pod 'TrustArcMobileConsent', '~> 2025.4.2'\nend"
PodfilePlain == "target 'App' do\n  pod 'Alamofire'\nend"

SwiftImport == "import trustarc_consent_sdk\n"
SwiftPlain == "struct Util { }"
SwiftFull == SwiftImport \o "func boot() {\n  TrustArc.sharedInstance.setDomain(\"example.com\").start { }\n}"
SwiftDomainOnly == SwiftImport \o "func boot(sdk: TrustArc) {\n  sdk.setDomain(\"example.com\")\n}"
SwiftStartOnly == SwiftImport \o "func boot(sdk: TrustArc) {\n  sdk.start { }\n}"
SwiftDebug == SwiftImport \o "func dbg(sdk: TrustArc) {\n  sdk.enableDebugLogs(true)\n}"

JsPlain == "export const id = (x) => x;"
JsSdk == "import TrustArcSdk from '@trustarc/trustarc-react-native-consent-sdk';"
DartPlain == "int id(int x) => x;"
DartSdk == "import 'package:flutter_trustarc_mobile_consent_sdk/sdk.dart';"

\* every text a file of a project tree can hold
AllTexts ==
    {"", PubspecPlain, PubspecFlutter, PubspecFlutterCaps, PubspecFlutterSdk,
     GradlePlain, GradleSdk, GradleAlias, TomlVersioned, TomlUnversioned,
     ManifestInternet, ManifestBoth,
     KtPlain, KtDirectOk, KtDirectReversed, KtCtorOnly, KtStartOnly, KtStartSingleton,
     KtProvider, KtManagerInjected, KtManagerPlain, KtAppHilt, KtDebug,
     PackageSwiftSdk, PackageSwiftPlain, PodfileSdk, PodfilePlain,
     SwiftPlain, SwiftFull, SwiftDomainOnly, SwiftStartOnly, SwiftDebug,
     JsPlain, JsSdk, DartPlain, DartSdk}

(***************************************************************************)
(* The searches below are computed once for the texts of AllTexts and      *)
(* looked up afterwards; on any other text they are computed in place.     *)
(***************************************************************************)
\* the literals searched for with `in`
Needles ==
    {"TrustArc", "com.truste.androidmobileconsentsdk", "SdkMode.",
     "@Module", "@Provides", "@Singleton", "@Inject", "@HiltAndroidApp", "@AndroidEntryPoint",
     "ConsentManager", "TrustArcManager", "SdkManager",
     "TASharedInstance", "getSdkInstance",
     "com.trustarc:trustarc-consent-sdk", "trustarc.consent.sdk",
     "trustarc-consent-sdk", "trustarcConsentSdk",
     "android.permission.INTERNET", "android.permission.ACCESS_NETWORK_STATE",
     "TrustArcMobileConsent", "trustarc-mobile-consent", "trustarc_consent_sdk",
     "import trustarc_consent_sdk", "TrustArc.sharedInstance"}

\* the literals searched for in text.lower()
LowerNeedles == {"flutter", "trustarc", "initialize", "init", "start"}

\* the literals of the patterns lit\s*\( and lit\s*\{
CallLits == {"TrustArc", ".start", ".enableDebugLog", ".enableDebugLogs", ".setDomain"}

ContainsTable == [t \in AllTexts |-> [n \in Needles |-> Contains(t, n)]]
LowerContainsTable == [t \in AllTexts |-> [n \in LowerNeedles |-> Contains(Lower(t), n)]]
CallTable ==
    [t \in AllTexts |-> [lit \in CallLits |-> [ch \in {"(", "{"} |-> SearchLitSpaceChar(lit, t, ch)]]]

\* n in t
Has(t, n) ==
    IF t \in AllTexts /\ n \in Needles THEN ContainsTable[t][n] ELSE Contains(t, n)

\* n in t.lower()
HasLower(t, n) ==
    IF t \in AllTexts /\ n \in LowerNeedles THEN LowerContainsTable[t][n]
    ELSE Contains(Lower(t), n)

\* re.search(lit \s* ch, t)
HasCall(lit, t, ch) ==
    IF t \in AllTexts /\ lit \in CallLits /\ ch \in {"(", "{"} THEN CallTable[t][lit][ch]
    ELSE SearchLitSpaceChar(lit, t, ch)

(***************************************************************************)
(* ScoringModel.                                                           *)
(***************************************************************************)
\* a scoring that also deducts for info issues
RECURSIVE ScoreLoopInfo(_, _)
ScoreLoopInfo(iss, score) ==
    IF Len(iss) = 0 THEN score
    ELSE IF Head(iss).severity = ERROR THEN ScoreLoopInfo(Tail(iss), score - 20)
    ELSE IF Head(iss).severity \in {WARNING, INFO} THEN ScoreLoopInfo(Tail(iss), score - 10)
    ELSE ScoreLoopInfo(Tail(iss), score)

\* the for loop of calculate_score
RECURSIVE ScoreLoop(_, _)
ScoreLoop(iss, score) ==
    IF Len(iss) = 0 THEN score
    ELSE IF Head(iss).severity = ERROR THEN ScoreLoop(Tail(iss), score - 20)
    ELSE IF Head(iss).severity = WARNING THEN ScoreLoop(Tail(iss), score - 10)
    ELSE ScoreLoop(Tail(iss), score)

\* a scoring that deducts for errors alone
calculate_score_errors_only(iss, sdk_found, initialization_found) ==
    LET score == 100 - 20 * CountSev(iss, ERROR)
        final == IF ~sdk_found THEN score - 30 ELSE score
    IN  Max(0, Min(100, final))

calculate_score(iss, sdk_found, initialization_found) ==
    LET score == ScoreLoop(iss, 100)
        final == IF ~sdk_found THEN score - 30 ELSE score
    IN  Max(0, Min(100, final))

(***************************************************************************)
(* InitializationAnalyzer: same-file ordering.                             *)
(***************************************************************************)
\* last 0-based index i < n with P, or -1: what the loop leaves in the variable
RECURSIVE LastCtorLine(_, _)
LastCtorLine(lines, n) ==
    IF n = 0 THEN -1
    ELSE IF SearchLitParen("TrustArc", lines[n]) THEN n - 1
    ELSE LastCtorLine(lines, n - 1)

\* the look-back window test of line 616, at 0-based index i
StartWindowHit(lines, i) ==
    /\ SearchLitParen(".start", lines[i + 1])
    /\ Contains(Lower(ListStr(Slice(lines, Max(0, i - 2), i + 1))), "trustArc")

RECURSIVE LastStartLine(_, _)
LastStartLine(lines, n) ==
    IF n = 0 THEN -1
    ELSE IF StartWindowHit(lines, n - 1) THEN n - 1
    ELSE LastStartLine(lines, n - 1)

\* constructor_line and start_line after the loop of lines 613-617
OrderLines(content) ==
    LET lines == SplitLines(content)
    IN  [constructor_line |-> LastCtorLine(lines, Len(lines)),
         start_line |-> LastStartLine(lines, Len(lines))]

OrderLinesTable == [t \in AllTexts |-> OrderLines(t)]

OrderLinesOf(content) ==
    IF content \in AllTexts THEN OrderLinesTable[content] ELSE OrderLines(content)

\* the issues check_same_file_initialization_order appends
check_same_file_initialization_order(file_path, content) ==
    LET found == OrderLinesOf(content)
        constructor_line == found.constructor_line
        start_line == found.start_line
    IN  IF constructor_line > 0 /\ start_line > 0
        THEN IF start_line < constructor_line
             THEN <<Issue(ERROR, "Initialization",
                          "start() called before TrustArc constructor",
                          file_path, start_line + 1,
                          "Ensure TrustArc instance is created before calling start()")>>
             ELSE <<Issue(SUCCESS, "Initialization",
                          "TrustArc properly initialized with start()",
                          file_path, NoLine, None)>>
        ELSE <<>>


(***************************************************************************)
(* ArtifactLocator: the project tree and pathlib.                          *)
(***************************************************************************)
\* what json.load gives for a file
JInvalid == [kind |-> "invalid", dependencies |-> {}, devDependencies |-> {}]
JArray == [kind |-> "array", dependencies |-> {}, devDependencies |-> {}]
JObject(deps, dev) == [kind |-> "object", dependencies |-> deps, devDependencies |-> dev]

\* a file that can be read as text (it is not JSON)
TextFile(path, text) == [path |-> path, readable |-> TRUE, text |-> text, json |-> JInvalid]
\* a file that holds JSON
JsonFile(path, value) == [path |-> path, readable |-> TRUE, text |-> "", json |-> value]
\* a file (or directory) whose read raises
Unreadable(path) == [path |-> path, readable |-> FALSE, text |-> "", json |-> JInvalid]

RECURSIVE LastSlash(_, _)
LastSlash(path, i) ==
    IF i = 0 THEN 0
    ELSE IF CharAt(path, i) = "/" THEN i
    ELSE LastSlash(path, i - 1)

\* Path.name
Basename(path) == SubSeq(path, LastSlash(path, Len(path)) + 1, Len(path))

\* (path / name).exists(): a file directly under the project root
ExistsAtRoot(t, name) == \E k \in 1..Len(t) : t[k].path = name

RootFile(t, name) == t[CHOOSE k \in 1..Len(t) : t[k].path = name]

\* list(path.rglob("*" + suffix))
RGlobSuffix(t, suffix) ==
    SelectSeq(t, LAMBDA f : EndsWith(Basename(f.path), suffix))

\* list(path.rglob(prefix + "*"))
RGlobPrefix(t, prefix) ==
    SelectSeq(t, LAMBDA f : StartsWith(Basename(f.path), prefix))

\* list(path.rglob(name))
RGlobName(t, name) ==
    SelectSeq(t, LAMBDA f : Basename(f.path) = name)

(***************************************************************************)
(* PlatformDetector.                                                       *)
(***************************************************************************)
\* {**data.get('dependencies', {}), **data.get('devDependencies', {})}: its keys;
\* data.get raises when the JSON value is not an object
MergedDeps(json) == json.dependencies \cup json.devDependencies
JsonLoads(f) == f.readable /\ f.json.kind = "object"

\* lines 1016-1022
FlutterRule(t) ==
    /\ ExistsAtRoot(t, "pubspec.yaml")
    /\ LET f == RootFile(t, "pubspec.yaml")
       IN  f.readable /\ HasLower(f.text, "flutter")

\* lines 1025-1033
ReactNativeRule(t) ==
    /\ ExistsAtRoot(t, "package.json")
    /\ LET f == RootFile(t, "package.json")
       IN  JsonLoads(f) /\ "react-native" \in MergedDeps(f.json)

\* line 1036
IosRule(t) ==
    \/ Len(RGlobSuffix(t, ".xcodeproj")) > 0
    \/ Len(RGlobSuffix(t, ".xcworkspace")) > 0
    \/ ExistsAtRoot(t, "Podfile")

\* lines 1040-1041
AndroidRule(t) ==
    \/ ExistsAtRoot(t, "build.gradle")
    \/ ExistsAtRoot(t, "build.gradle.kts")
    \/ Len(RGlobName(t, "build.gradle")) > 0
    \/ Len(RGlobName(t, "build.gradle.kts")) > 0

\* a detector that tests Android before iOS
detect_platform_android_first(t) ==
    IF FlutterRule(t) THEN FLUTTER
    ELSE IF ReactNativeRule(t) THEN REACT_NATIVE
    ELSE IF AndroidRule(t) THEN ANDROID
    ELSE IF IosRule(t) THEN IOS
    ELSE UNKNOWN

\* a detector that gives up on a manifest it cannot read or parse
detect_platform_abort(t) ==
    IF ExistsAtRoot(t, "pubspec.yaml") /\ ~RootFile(t, "pubspec.yaml").readable
    THEN UNKNOWN
    ELSE IF FlutterRule(t) THEN FLUTTER
    ELSE IF ExistsAtRoot(t, "package.json") /\ ~JsonLoads(RootFile(t, "package.json"))
    THEN UNKNOWN
    ELSE IF ReactNativeRule(t) THEN REACT_NATIVE
    ELSE IF IosRule(t) THEN IOS
    ELSE IF AndroidRule(t) THEN ANDROID
    ELSE UNKNOWN

detect_platform(t) ==
    IF FlutterRule(t) THEN FLUTTER
    ELSE IF ReactNativeRule(t) THEN REACT_NATIVE
    ELSE IF IosRule(t) THEN IOS
    ELSE IF AndroidRule(t) THEN ANDROID
    ELSE UNKNOWN

(***************************************************************************)
(* Regular expressions of the dependency checks.                           *)
(***************************************************************************)
RECURSIVE SkipSpaces(_, _)
\* \s* from position p: the position after the spaces
SkipSpaces(s, p) == IF IsSpace(CharAt(s, p)) THEN SkipSpaces(s, p + 1) ELSE p

RECURSIVE SkipDigits(_, _)
\* \d* from position p: the position after the digits
SkipDigits(s, p) == IF IsDigit(CharAt(s, p)) THEN SkipDigits(s, p + 1) ELSE p

\* ["\']? from position p
SkipOptQuote(s, p) == IF CharAt(s, p) \in {"\"", "'"} THEN p + 1 ELSE p

\* (\d+\.\d+\.\d+) from position p: the position after it, or 0 if it does not match
SemVerEnd(s, p) ==
    LET d1 == SkipDigits(s, p)
        d2 == SkipDigits(s, d1 + 1)
        d3 == SkipDigits(s, d2 + 1)
    IN  IF /\ d1 > p /\ CharAt(s, d1) = "."
           /\ d2 > d1 + 1 /\ CharAt(s, d2) = "."
           /\ d3 > d2 + 1
        THEN d3 ELSE 0

\* the first position of a set of positions, or 0: where re.search matches
FirstPos(S) ==
    IF S = {} THEN 0 ELSE CHOOSE i \in S : \A j \in S : i <= j

\* where the version starts when
\* trustarc-consent-sdk["\']?\s*:\s*["\']?(\d+\.\d+\.\d+) matches at i, else 0
GradleVersionStart(s, i) ==
    LET lit == "trustarc-consent-sdk"
        a == SkipSpaces(s, SkipOptQuote(s, i + Len(lit)))
        b == SkipOptQuote(s, SkipSpaces(s, a + 1))
    IN  IF OccursAt(lit, s, i) /\ CharAt(s, a) = ":" /\ SemVerEnd(s, b) > 0
        THEN b ELSE 0

\* group(1) of re.search(that pattern, content), or None
GradleVersion(s) ==
    LET i == FirstPos({k \in 1..Len(s) : GradleVersionStart(s, k) > 0})
    IN  IF i = 0 THEN None
        ELSE LET b == GradleVersionStart(s, i) IN SubSeq(s, b, SemVerEnd(s, b) - 1)

GradleVersionTable == [t \in AllTexts |-> GradleVersion(t)]

GradleVersionOf(s) == IF s \in AllTexts THEN GradleVersionTable[s] ELSE GradleVersion(s)

\* where the version starts when trustarcConsentSdk\s*=\s*"(\d+\.\d+\.\d+)"
\* matches at i, else 0
TomlVersionStart(s, i) ==
    LET lit == "trustarcConsentSdk"
        a == SkipSpaces(s, i + Len(lit))
        b == SkipSpaces(s, a + 1)
    IN  IF /\ OccursAt(lit, s, i) /\ CharAt(s, a) = "=" /\ CharAt(s, b) = "\""
           /\ SemVerEnd(s, b + 1) > 0
           /\ CharAt(s, SemVerEnd(s, b + 1)) = "\""
        THEN b + 1 ELSE 0

TomlVersion(s) ==
    LET i == FirstPos({k \in 1..Len(s) : TomlVersionStart(s, k) > 0})
    IN  IF i = 0 THEN None
        ELSE LET b == TomlVersionStart(s, i) IN SubSeq(s, b, SemVerEnd(s, b) - 1)

TomlVersionTable == [t \in AllTexts |-> TomlVersion(t)]

TomlVersionOf(s) == IF s \in AllTexts THEN TomlVersionTable[s] ELSE TomlVersion(s)

(***************************************************************************)
(* RuleSet: Android.  Every check is given the tree and gives the issues   *)
(* it appends to self.issues.                                              *)
(***************************************************************************)
RECURSIVE GradleLoopAll(_)
\* a loop without the break: one success for every build file naming the SDK
GradleLoopAll(files) ==
    IF Len(files) = 0 THEN <<>>
    ELSE LET f == Head(files)
             rest == GradleLoopAll(Tail(files))
         IN  IF f.readable /\ (\/ Has(f.text, "com.trustarc:trustarc-consent-sdk")
                               \/ Has(f.text, "trustarc.consent.sdk"))
             THEN <<Issue(SUCCESS, "Dependency", "TrustArc SDK found (using version catalog)",
                          f.path, NoLine, None)>> \o rest
             ELSE rest

RECURSIVE GradleLoop(_)
\* lines 321-348: the first readable build.gradle* file that names the SDK
GradleLoop(files) ==
    IF Len(files) = 0 THEN <<>>
    ELSE LET f == Head(files) IN
         IF ~f.readable THEN GradleLoop(Tail(files))
         ELSE IF \/ Has(f.text, "com.trustarc:trustarc-consent-sdk")
                 \/ Has(f.text, "trustarc.consent.sdk")
         THEN LET version == GradleVersionOf(f.text) IN
              IF version # None
              THEN <<Issue(SUCCESS, "Dependency",
                           "TrustArc SDK found (version " \o version \o ")",
                           f.path, NoLine, None)>>
              ELSE <<Issue(SUCCESS, "Dependency",
                           "TrustArc SDK found (using version catalog)",
                           f.path, NoLine, None)>>
         ELSE GradleLoop(Tail(files))

RECURSIVE TomlLoop(_)
\* lines 352-379: the first readable libs.versions.toml that names the SDK
TomlLoop(files) ==
    IF Len(files) = 0 THEN <<>>
    ELSE LET f == Head(files) IN
         IF ~f.readable THEN TomlLoop(Tail(files))
         ELSE IF \/ Has(f.text, "trustarc-consent-sdk")
                 \/ Has(f.text, "trustarcConsentSdk")
         THEN LET version == TomlVersionOf(f.text) IN
              IF version # None
              THEN <<Issue(SUCCESS, "Dependency",
                           "TrustArc SDK found in version catalog (version " \o version \o ")",
                           f.path, NoLine, None)>>
              ELSE <<Issue(SUCCESS, "Dependency",
                           "TrustArc SDK found in version catalog",
                           f.path, NoLine, None)>>
         ELSE TomlLoop(Tail(files))

\* a dependency check that only warns when no gradle file or catalog names the SDK
check_gradle_dependency_warning(t) ==
    LET gradle_files == RGlobPrefix(t, "build.gradle")
        toml_files == RGlobName(t, "libs.versions.toml")
        from_gradle == GradleLoop(gradle_files)
        from_toml == IF Len(from_gradle) = 0 THEN TomlLoop(toml_files) ELSE <<>>
        found == Len(from_gradle) > 0 \/ Len(from_toml) > 0
    IN  from_gradle \o from_toml \o
        (IF ~found
         THEN <<Issue(WARNING, "Dependency",
                      "TrustArc SDK dependency not found in gradle files",
                      None, NoLine,
                      "Add: implementation(\"com.trustarc:trustarc-consent-sdk:VERSION\") or add to libs.versions.toml")>>
         ELSE <<>>)

check_gradle_dependency(t) ==
    LET gradle_files == RGlobPrefix(t, "build.gradle")
        toml_files == RGlobName(t, "libs.versions.toml")
        from_gradle == GradleLoop(gradle_files)
        from_toml == IF Len(from_gradle) = 0 THEN TomlLoop(toml_files) ELSE <<>>
        found == Len(from_gradle) > 0 \/ Len(from_toml) > 0
    IN  from_gradle \o from_toml \o
        (IF ~found
         THEN <<Issue(ERROR, "Dependency",
                      "TrustArc SDK dependency not found in gradle files",
                      None, NoLine,
                      "Add: implementation(\"com.trustarc:trustarc-consent-sdk:VERSION\") or add to libs.versions.toml")>>
         ELSE <<>>)

\* required_permissions[perm] after the loop of lines 398-405
PermissionSeen(manifests, perm) ==
    \E k \in 1..Len(manifests) :
        manifests[k].readable /\ Has(manifests[k].text, perm)

check_manifest_permissions(t) ==
    LET manifest_files == RGlobName(t, "AndroidManifest.xml")
    IN  (IF ~PermissionSeen(manifest_files, "android.permission.INTERNET")
         THEN <<Issue(ERROR, "Permissions",
                      "Missing required permission: INTERNET",
                      None, NoLine,
                      "Add: <uses-permission android:name=\"android.permission.INTERNET\" />")>>
         ELSE <<>>)
        \o
        (IF ~PermissionSeen(manifest_files, "android.permission.ACCESS_NETWORK_STATE")
         THEN <<Issue(WARNING, "Permissions",
                      "Missing recommended permission: ACCESS_NETWORK_STATE",
                      None, NoLine,
                      "Add: <uses-permission android:name=\"android.permission.ACCESS_NETWORK_STATE\" />")>>
         ELSE <<>>)

(***************************************************************************)
(* InitializationAnalyzer (Android): file roles and the two paths.         *)
(***************************************************************************)
RECURSIVE SkipWord(_, _)
\* \w* from position p: the position after the word characters
SkipWord(s, p) == IF IsWordChar(CharAt(s, p)) THEN SkipWord(s, p + 1) ELSE p

\* class\s+\w+ matches at i: the position after it, else 0
ClassNameEnd(s, i) ==
    LET a == SkipSpaces(s, i + 5)
        b == SkipWord(s, a)
    IN  IF OccursAt("class", s, i) /\ a > i + 5 /\ b > a THEN b ELSE 0

\* re.search(r'class\s+\w+\s*:\s*Application\(\)', content)
SearchKotlinApplication(s) ==
    \E i \in 1..Len(s) :
        LET b == ClassNameEnd(s, i)
            c == SkipSpaces(s, b)
        IN  /\ b > 0
            /\ CharAt(s, c) = ":"
            /\ OccursAt("Application()", s, SkipSpaces(s, c + 1))

SearchKotlinApplicationTable == [t \in AllTexts |-> SearchKotlinApplication(t)]

SearchKotlinApplicationOf(s) == IF s \in AllTexts THEN SearchKotlinApplicationTable[s] ELSE SearchKotlinApplication(s)

\* re.search(r'class\s+\w+\s+extends\s+Application', content)
SearchJavaApplication(s) ==
    \E i \in 1..Len(s) :
        LET b == ClassNameEnd(s, i)
            c == SkipSpaces(s, b)
            d == SkipSpaces(s, c + 7)
        IN  /\ b > 0
            /\ c > b
            /\ OccursAt("extends", s, c)
            /\ d > c + 7
            /\ OccursAt("Application", s, d)

SearchJavaApplicationTable == [t \in AllTexts |-> SearchJavaApplication(t)]

SearchJavaApplicationOf(s) == IF s \in AllTexts THEN SearchJavaApplicationTable[s] ELSE SearchJavaApplication(s)

\* re.search(r'@Provides.*?TrustArc', content, re.DOTALL)
SearchProvidesTrustArc(s) ==
    \E i \in 1..Len(s) :
        /\ OccursAt("@Provides", s, i)
        /\ \E j \in (i + 9)..Len(s) : OccursAt("TrustArc", s, j)

SearchProvidesTrustArcTable == [t \in AllTexts |-> SearchProvidesTrustArc(t)]

SearchProvidesTrustArcOf(s) == IF s \in AllTexts THEN SearchProvidesTrustArcTable[s] ELSE SearchProvidesTrustArc(s)

\* re.search(r'(initialize|init|start)', content, re.IGNORECASE)
SearchInitCall(s) ==
    HasLower(s, "initialize") \/ HasLower(s, "init") \/ HasLower(s, "start")

DI_ANNOTATIONS == {"@Module", "@Provides", "@Singleton", "@Inject",
                   "@HiltAndroidApp", "@AndroidEntryPoint"}

IsSdkFile(f) ==
    Has(f.text, "TrustArc") /\ Has(f.text, "com.truste.androidmobileconsentsdk")
IsDiFile(f) == \E anno \in DI_ANNOTATIONS : Has(f.text, anno)
IsApplicationFile(f) == SearchKotlinApplicationOf(f.text) \/ SearchJavaApplicationOf(f.text)
IsManagerFile(f) ==
    \/ Has(f.text, "ConsentManager")
    \/ Has(f.text, "TrustArcManager")
    \/ Has(f.text, "SdkManager")

\* REQUIRED_PATTERNS of AndroidDiagnostic, searched in a whole file
HasConstructor(f) == HasCall("TrustArc", f.text, "(") /\ Has(f.text, "SdkMode.")
HasStart(f) == HasCall(".start", f.text, "(")
HasDebugLog(f) == HasCall(".enableDebugLog", f.text, "(")

\* the first element of the hits of a loop that breaks at its first hit,
\* as a sequence of 0 or 1
FirstWhere(hits) == IF Len(hits) = 0 THEN <<>> ELSE <<Head(hits)>>

\* lines 510-524: only the first manager file holding a start call is looked at
ManagerSuccess(manager_files) ==
    LET hit == FirstWhere(SelectSeq(manager_files, HasStart))
    IN  IF Len(hit) = 1 /\ Has(hit[1].text, "@Inject")
        THEN <<Issue(SUCCESS, "Architecture",
                     "Initialization encapsulated in injected manager class",
                     hit[1].path, NoLine, None)>>
        ELSE <<>>

\* a DI path whose missing-start error does not look at the start calls of the SDK files
check_di_architecture_any_start(constructor_locations, start_locations, di_files, application_files, manager_files, sdk_files) ==
    LET provider == FirstWhere(SelectSeq(di_files, LAMBDA f : SearchProvidesTrustArcOf(f.text)))
        has_provides_trustarc == Len(provider) = 1
        has_manager_with_start == Len(FirstWhere(SelectSeq(manager_files, HasStart))) = 1
        app == FirstWhere(SelectSeq(application_files,
                  LAMBDA f : Has(f.text, "@HiltAndroidApp") /\ SearchInitCall(f.text)))
        has_application_init == Len(app) = 1
        has_debug_log == \E k \in 1..Len(sdk_files) : HasDebugLog(sdk_files[k])
    IN  (IF has_provides_trustarc
         THEN <<Issue(SUCCESS, "Architecture",
                      "TrustArc provided via Dependency Injection",
                      provider[1].path, NoLine, None)>>
         ELSE <<>>)
        \o ManagerSuccess(manager_files)
        \o
        (IF has_application_init
         THEN <<Issue(SUCCESS, "Initialization",
                      "SDK initialized in Application class",
                      app[1].path, NoLine, None)>>
         ELSE <<>>)
        \o
        (IF /\ has_provides_trustarc
            /\ ~(has_manager_with_start \/ has_application_init)
         THEN <<Issue(ERROR, "Initialization",
                      "TrustArc provided via DI but start() never called",
                      None, NoLine,
                      "Call trustArc.start(domainName) in Application class or manager")>>
         ELSE <<>>)
        \o
        (IF ~has_debug_log /\ (has_manager_with_start \/ has_application_init)
         THEN <<Issue(INFO, "Configuration",
                      "Consider enabling debug logging for development",
                      None, NoLine,
                      "Add: trustArc.enableDebugLog(true) before start()")>>
         ELSE <<>>)

check_di_architecture(constructor_locations, start_locations, di_files, application_files, manager_files, sdk_files) ==
    LET provider == FirstWhere(SelectSeq(di_files, LAMBDA f : SearchProvidesTrustArcOf(f.text)))
        has_provides_trustarc == Len(provider) = 1
        has_manager_with_start == Len(FirstWhere(SelectSeq(manager_files, HasStart))) = 1
        app == FirstWhere(SelectSeq(application_files,
                  LAMBDA f : Has(f.text, "@HiltAndroidApp") /\ SearchInitCall(f.text)))
        has_application_init == Len(app) = 1
        has_debug_log == \E k \in 1..Len(sdk_files) : HasDebugLog(sdk_files[k])
    IN  (IF has_provides_trustarc
         THEN <<Issue(SUCCESS, "Architecture",
                      "TrustArc provided via Dependency Injection",
                      provider[1].path, NoLine, None)>>
         ELSE <<>>)
        \o ManagerSuccess(manager_files)
        \o
        (IF has_application_init
         THEN <<Issue(SUCCESS, "Initialization",
                      "SDK initialized in Application class",
                      app[1].path, NoLine, None)>>
         ELSE <<>>)
        \o
        (IF /\ has_provides_trustarc
            /\ ~(has_manager_with_start \/ has_application_init)
            /\ Len(start_locations) = 0
         THEN <<Issue(ERROR, "Initialization",
                      "TrustArc provided via DI but start() never called",
                      None, NoLine,
                      "Call trustArc.start(domainName) in Application class or manager")>>
         ELSE <<>>)
        \o
        (IF ~has_debug_log /\ (has_manager_with_start \/ has_application_init)
         THEN <<Issue(INFO, "Configuration",
                      "Consider enabling debug logging for development",
                      None, NoLine,
                      "Add: trustArc.enableDebugLog(true) before start()")>>
         ELSE <<>>)

\* a cross-file check that never looks for the singleton accessor
check_cross_file_initialization_note(constructor_locations, start_locations) ==
    <<Issue(INFO, "Architecture",
            "TrustArc constructor and start() in different files",
            None, NoLine,
            "Ensure start() is called after constructor in application flow")>>

\* a cross-file check that treats the split without an accessor as an error
check_cross_file_initialization_error(constructor_locations, start_locations) ==
    LET hit == FirstWhere(SelectSeq(start_locations,
                  LAMBDA f : \/ Has(f.text, "TASharedInstance")
                             \/ Has(f.text, "getSdkInstance")))
    IN  IF Len(hit) = 1
        THEN <<Issue(SUCCESS, "Initialization",
                     "Using singleton pattern for cross-activity access",
                     hit[1].path, NoLine, None)>>
        ELSE <<Issue(ERROR, "Initialization",
                     "TrustArc constructor and start() in different files",
                     None, NoLine,
                     "Ensure start() is called after constructor in application flow")>>

check_cross_file_initialization(constructor_locations, start_locations) ==
    LET hit == FirstWhere(SelectSeq(start_locations,
                  LAMBDA f : \/ Has(f.text, "TASharedInstance")
                             \/ Has(f.text, "getSdkInstance")))
    IN  IF Len(hit) = 1
        THEN <<Issue(SUCCESS, "Initialization",
                     "Using singleton pattern for cross-activity access",
                     hit[1].path, NoLine, None)>>
        ELSE <<Issue(INFO, "Architecture",
                     "TrustArc constructor and start() in different files",
                     None, NoLine,
                     "Ensure start() is called after constructor in application flow")>>

RECURSIVE SameFileLoop(_, _)
\* lines 590-592: the ordering check on every SDK file that holds a constructor
SameFileLoop(sdk_files, constructor_files) ==
    IF Len(sdk_files) = 0 THEN <<>>
    ELSE LET f == Head(sdk_files) IN
         (IF f.path \in constructor_files
          THEN check_same_file_initialization_order(f.path, f.text)
          ELSE <<>>)
         \o SameFileLoop(Tail(sdk_files), constructor_files)

PathsOf(files) == {files[k].path : k \in 1..Len(files)}

\* a traditional path that goes on to the recommended patterns after the
\* error of a constructor that is never started
check_traditional_architecture_no_stop(constructor_locations, start_locations, sdk_files) ==
    IF Len(constructor_locations) = 0
    THEN <<Issue(ERROR, "Initialization",
                 "TrustArc instance never created",
                 None, NoLine,
                 "Create instance: val trustArc = TrustArc(context, SdkMode.Standard)")>>
    ELSE (IF Len(start_locations) = 0
          THEN <<Issue(ERROR, "Initialization",
                       "TrustArc instance created but start() never called",
                       constructor_locations[1].path, NoLine,
                       "Call trustArc.start(domainName = \"your.domain\")")>>
          ELSE IF PathsOf(constructor_locations) \cap PathsOf(start_locations) # {}
          THEN SameFileLoop(sdk_files, PathsOf(constructor_locations))
          ELSE check_cross_file_initialization(constructor_locations, start_locations))
         \o
         (IF ~\E k \in 1..Len(sdk_files) : HasDebugLog(sdk_files[k])
          THEN <<Issue(INFO, "Configuration",
                       "Consider enabling debug logging for development",
                       None, NoLine,
                       "Add: trustArc.enableDebugLog(true)")>>
          ELSE <<>>)

\* a traditional path that recommends debug logging whether or not it is enabled
check_traditional_architecture_always_note(constructor_locations, start_locations, sdk_files) ==
    IF Len(constructor_locations) = 0
    THEN <<Issue(ERROR, "Initialization",
                 "TrustArc instance never created",
                 None, NoLine,
                 "Create instance: val trustArc = TrustArc(context, SdkMode.Standard)")>>
    ELSE IF Len(start_locations) = 0
    THEN <<Issue(ERROR, "Initialization",
                 "TrustArc instance created but start() never called",
                 constructor_locations[1].path, NoLine,
                 "Call trustArc.start(domainName = \"your.domain\")")>>
    ELSE (IF PathsOf(constructor_locations) \cap PathsOf(start_locations) # {}
          THEN SameFileLoop(sdk_files, PathsOf(constructor_locations))
          ELSE check_cross_file_initialization(constructor_locations, start_locations))
         \o
         <<Issue(INFO, "Configuration",
                 "Consider enabling debug logging for development",
                 None, NoLine,
                 "Add: trustArc.enableDebugLog(true)")>>

check_traditional_architecture(constructor_locations, start_locations, sdk_files) ==
    IF Len(constructor_locations) = 0
    THEN <<Issue(ERROR, "Initialization",
                 "TrustArc instance never created",
                 None, NoLine,
                 "Create instance: val trustArc = TrustArc(context, SdkMode.Standard)")>>
    ELSE IF Len(start_locations) = 0
    THEN <<Issue(ERROR, "Initialization",
                 "TrustArc instance created but start() never called",
                 constructor_locations[1].path, NoLine,
                 "Call trustArc.start(domainName = \"your.domain\")")>>
    ELSE LET constructor_files == PathsOf(constructor_locations)
             start_files == PathsOf(start_locations)
             has_debug_log == \E k \in 1..Len(sdk_files) : HasDebugLog(sdk_files[k])
         IN  (IF constructor_files \cap start_files # {}
              THEN SameFileLoop(sdk_files, constructor_files)
              ELSE check_cross_file_initialization(constructor_locations, start_locations))
             \o
             (IF ~has_debug_log
              THEN <<Issue(INFO, "Configuration",
                           "Consider enabling debug logging for development",
                           None, NoLine,
                           "Add: trustArc.enableDebugLog(true)")>>
              ELSE <<>>)

\* an analysis that looks for the DI markers in the SDK-usage files only
analyze_initialization_architecture_sdk_di(sdk_files, di_files, application_files, manager_files) ==
    LET using_di == \E k \in 1..Len(sdk_files) : IsDiFile(sdk_files[k])
        constructor_locations == SelectSeq(sdk_files, HasConstructor)
        start_locations == SelectSeq(sdk_files, HasStart)
    IN  IF using_di
        THEN check_di_architecture(constructor_locations, start_locations, di_files,
                                   application_files, manager_files, sdk_files)
        ELSE check_traditional_architecture(constructor_locations, start_locations, sdk_files)

\* an analysis that always takes the traditional path
analyze_initialization_architecture_no_di(sdk_files, di_files, application_files, manager_files) ==
    check_traditional_architecture(SelectSeq(sdk_files, HasConstructor),
                                   SelectSeq(sdk_files, HasStart), sdk_files)

analyze_initialization_architecture(sdk_files, di_files, application_files, manager_files) ==
    LET using_di == Len(di_files) > 0
        constructor_locations == SelectSeq(sdk_files, HasConstructor)
        start_locations == SelectSeq(sdk_files, HasStart)
    IN  IF using_di
        THEN check_di_architecture(constructor_locations, start_locations, di_files,
                                   application_files, manager_files, sdk_files)
        ELSE check_traditional_architecture(constructor_locations, start_locations, sdk_files)

\* the files of lines 425-455 that could be read, in the order they are visited
CodeFiles(t) ==
    SelectSeq(RGlobSuffix(t, ".kt") \o RGlobSuffix(t, ".java"), LAMBDA f : f.readable)

check_kotlin_java_files(t) ==
    LET code_files == CodeFiles(t)
        sdk_files == SelectSeq(code_files, IsSdkFile)
        di_files == SelectSeq(code_files, IsDiFile)
        application_files == SelectSeq(code_files, IsApplicationFile)
        manager_files == SelectSeq(code_files, IsManagerFile)
    IN  IF Len(sdk_files) = 0
        THEN <<Issue(ERROR, "Implementation",
                     "No TrustArc SDK usage found in Kotlin/Java files",
                     None, NoLine,
                     "Import and initialize TrustArc SDK")>>
        ELSE analyze_initialization_architecture(sdk_files, di_files,
                                                 application_files, manager_files)

\* check_initialization_flow is `pass`
check_initialization_flow(t) == <<>>

(***************************************************************************)
(* RuleSet: iOS.                                                           *)
(***************************************************************************)
\* where the version starts when key\s*"(\d+\.\d+\.\d+)" matches at i, else 0
KeyVersionStart(key, s, i) ==
    LET a == SkipSpaces(s, i + Len(key))
    IN  IF /\ OccursAt(key, s, i) /\ CharAt(s, a) = "\""
           /\ SemVerEnd(s, a + 1) > 0
           /\ CharAt(s, SemVerEnd(s, a + 1)) = "\""
        THEN a + 1 ELSE 0

KeyVersion(key, s) ==
    LET i == FirstPos({k \in 1..Len(s) : KeyVersionStart(key, s, k) > 0})
    IN  IF i = 0 THEN None
        ELSE LET b == KeyVersionStart(key, s, i) IN SubSeq(s, b, SemVerEnd(s, b) - 1)

\* re.search(r'from:\s*"(\d+\.\d+\.\d+)"') or re.search(r'exact:\s*"(\d+\.\d+\.\d+)"')
PackageVersion(s) ==
    IF KeyVersion("from:", s) # None THEN KeyVersion("from:", s)
    ELSE KeyVersion("exact:", s)

PackageVersionTable == [t \in AllTexts |-> PackageVersion(t)]

PackageVersionOf(s) == IF s \in AllTexts THEN PackageVersionTable[s] ELSE PackageVersion(s)

IsQuote(c) == c \in {"\"", "'"}

\* ,\s*['\"]~>\s*(\d+\.\d+\.\d+)['\"] after a closing quote at k: where the
\* version starts, else 0
PodTailVersionStart(s, k) ==
    LET c == SkipSpaces(s, k + 2)
        d == SkipSpaces(s, c + 3)
    IN  IF /\ IsQuote(CharAt(s, k)) /\ CharAt(s, k + 1) = ","
           /\ IsQuote(CharAt(s, c)) /\ OccursAt("~>", s, c + 1)
           /\ SemVerEnd(s, d) > 0
           /\ IsQuote(CharAt(s, SemVerEnd(s, d)))
        THEN d ELSE 0

\* the closing quotes k that pod\s+['\"].*?['\"] can end on when it starts at i
PodCloses(s, i) ==
    LET a == SkipSpaces(s, i + 3)
    IN  IF OccursAt("pod", s, i) /\ a > i + 3 /\ IsQuote(CharAt(s, a))
        THEN {k \in (a + 1)..Len(s) :
                 /\ \A m \in (a + 1)..(k - 1) : CharAt(s, m) # "\n"
                 /\ PodTailVersionStart(s, k) > 0}
        ELSE {}

\* group(1) of re.search(r"pod\s+['\"].*?['\"],\s*['\"]~>\s*(\d+\.\d+\.\d+)['\"]", content)
PodVersion(s) ==
    LET i == FirstPos({k \in 1..Len(s) : PodCloses(s, k) # {}})
    IN  IF i = 0 THEN None
        ELSE LET ks == PodCloses(s, i)
                 k == CHOOSE x \in ks : \A y \in ks : x <= y
                 d == PodTailVersionStart(s, k)
             IN  SubSeq(s, d, SemVerEnd(s, d) - 1)

PodVersionTable == [t \in AllTexts |-> PodVersion(t)]

PodVersionOf(s) == IF s \in AllTexts THEN PodVersionTable[s] ELSE PodVersion(s)

RECURSIVE PackageLoop(_)
\* lines 694-722: the first readable Package.swift that names the SDK
PackageLoop(files) ==
    IF Len(files) = 0 THEN <<>>
    ELSE LET f == Head(files) IN
         IF ~f.readable THEN PackageLoop(Tail(files))
         ELSE IF \/ Has(f.text, "TrustArcMobileConsent")
                 \/ Has(f.text, "trustarc-mobile-consent")
                 \/ Has(f.text, "trustarc_consent_sdk")
         THEN LET version == PackageVersionOf(f.text) IN
              IF version # None
              THEN <<Issue(SUCCESS, "Dependency",
                           "TrustArc SDK found in Package.swift (version " \o version \o ")",
                           f.path, NoLine, None)>>
              ELSE <<Issue(SUCCESS, "Dependency",
                           "TrustArc SDK found in Package.swift",
                           f.path, NoLine, None)>>
         ELSE PackageLoop(Tail(files))

RECURSIVE PodLoop(_)
\* lines 726-753: the first readable Podfile that names the SDK
PodLoop(files) ==
    IF Len(files) = 0 THEN <<>>
    ELSE LET f == Head(files) IN
         IF ~f.readable THEN PodLoop(Tail(files))
         ELSE IF \/ Has(f.text, "TrustArcMobileConsent")
                 \/ Has(f.text, "trustarc_consent_sdk")
         THEN LET version == PodVersionOf(f.text) IN
              IF version # None
              THEN <<Issue(SUCCESS, "Dependency",
                           "TrustArc SDK found in Podfile (version ~> " \o version \o ")",
                           f.path, NoLine, None)>>
              ELSE <<Issue(SUCCESS, "Dependency",
                           "TrustArc SDK found in Podfile",
                           f.path, NoLine, None)>>
         ELSE PodLoop(Tail(files))

check_package_dependency(t) ==
    LET package_files == RGlobName(t, "Package.swift")
        podfile == RGlobName(t, "Podfile")
        from_spm == PackageLoop(package_files)
        from_pods == IF Len(from_spm) = 0 THEN PodLoop(podfile) ELSE <<>>
        found == Len(from_spm) > 0 \/ Len(from_pods) > 0
    IN  from_spm \o from_pods \o
        (IF ~found
         THEN <<Issue(ERROR, "Dependency",
                      "TrustArc SDK dependency not found",
                      None, NoLine,
                      "Add TrustArc SDK via SPM (Package.swift) or CocoaPods (Podfile)")>>
         ELSE <<>>)

HasSharedInstance(f) == Has(f.text, "TrustArc.sharedInstance")
HasSetDomain(f) == HasCall(".setDomain", f.text, "(")
HasStartClosure(f) == HasCall(".start", f.text, "{")
\* re.search(r'\.enableDebugLogs?\s*\(', content)
HasDebugLogs(f) ==
    HasCall(".enableDebugLogs", f.text, "(") \/ HasCall(".enableDebugLog", f.text, "(")

\* init_file after the loop of lines 797-806: the last setDomain file, else the
\* first start file, else None
InitFile(sdk_files) ==
    LET sd == SelectSeq(sdk_files, HasSetDomain)
        st == SelectSeq(sdk_files, HasStartClosure)
    IN  IF Len(sd) > 0 THEN sd[Len(sd)].path
        ELSE IF Len(st) > 0 THEN st[1].path
        ELSE None

\* an analysis that only counts a start call in a file that also sets the domain
check_initialization_patterns_same_file(sdk_files) ==
    LET has_shared_instance == \E k \in 1..Len(sdk_files) : HasSharedInstance(sdk_files[k])
        has_set_domain == \E k \in 1..Len(sdk_files) : HasSetDomain(sdk_files[k])
        has_start == \E k \in 1..Len(sdk_files) :
                         HasSetDomain(sdk_files[k]) /\ HasStartClosure(sdk_files[k])
        has_debug == \E k \in 1..Len(sdk_files) : HasDebugLogs(sdk_files[k])
        init_file == InitFile(sdk_files)
    IN  (IF has_shared_instance
         THEN <<Issue(SUCCESS, "Architecture",
                      "Using TrustArc.sharedInstance singleton pattern",
                      init_file, NoLine, None)>>
         ELSE <<>>)
        \o
        (IF has_set_domain /\ has_start
         THEN <<Issue(SUCCESS, "Initialization",
                      "TrustArc SDK properly configured with setDomain() and start()",
                      init_file, NoLine, None)>>
         ELSE IF has_set_domain /\ ~has_start
         THEN <<Issue(ERROR, "Initialization",
                      "SDK domain configured but start() never called",
                      init_file, NoLine,
                      "Call TrustArc.sharedInstance.start { } to initialize SDK")>>
         ELSE <<Issue(ERROR, "Initialization",
                      "SDK not initialized - missing setDomain() call",
                      None, NoLine,
                      "Configure SDK with: TrustArc.sharedInstance.setDomain(\"your.domain\").start { }")>>)
        \o
        (IF has_start /\ ~has_debug
         THEN <<Issue(INFO, "Configuration",
                      "Consider enabling debug logging for development",
                      None, NoLine,
                      "Add: TrustArc.sharedInstance.enableDebugLogs(true)")>>
         ELSE <<>>)

check_initialization_patterns(sdk_files) ==
    LET has_shared_instance == \E k \in 1..Len(sdk_files) : HasSharedInstance(sdk_files[k])
        has_set_domain == \E k \in 1..Len(sdk_files) : HasSetDomain(sdk_files[k])
        has_start == \E k \in 1..Len(sdk_files) : HasStartClosure(sdk_files[k])
        has_debug == \E k \in 1..Len(sdk_files) : HasDebugLogs(sdk_files[k])
        init_file == InitFile(sdk_files)
    IN  (IF has_shared_instance
         THEN <<Issue(SUCCESS, "Architecture",
                      "Using TrustArc.sharedInstance singleton pattern",
                      init_file, NoLine, None)>>
         ELSE <<>>)
        \o
        (IF has_set_domain /\ has_start
         THEN <<Issue(SUCCESS, "Initialization",
                      "TrustArc SDK properly configured with setDomain() and start()",
                      init_file, NoLine, None)>>
         ELSE IF has_set_domain /\ ~has_start
         THEN <<Issue(ERROR, "Initialization",
                      "SDK domain configured but start() never called",
                      init_file, NoLine,
                      "Call TrustArc.sharedInstance.start { } to initialize SDK")>>
         ELSE <<Issue(ERROR, "Initialization",
                      "SDK not initialized - missing setDomain() call",
                      None, NoLine,
                      "Configure SDK with: TrustArc.sharedInstance.setDomain(\"your.domain\").start { }")>>)
        \o
        (IF has_start /\ ~has_debug
         THEN <<Issue(INFO, "Configuration",
                      "Consider enabling debug logging for development",
                      None, NoLine,
                      "Add: TrustArc.sharedInstance.enableDebugLogs(true)")>>
         ELSE <<>>)

\* a Swift usage check as lenient as those of React Native and Flutter
check_swift_files_lenient(t) ==
    LET swift_files == SelectSeq(RGlobSuffix(t, ".swift"), LAMBDA f : f.readable)
        sdk_files == SelectSeq(swift_files,
                               LAMBDA f : /\ Has(f.text, "TrustArc")
                                          /\ Has(f.text, "import trustarc_consent_sdk"))
    IN  IF Len(sdk_files) = 0
        THEN <<Issue(WARNING, "Implementation",
                     "No TrustArc SDK usage found in Swift files",
                     None, NoLine,
                     "Import SDK with: import trustarc_consent_sdk")>>
        ELSE check_initialization_patterns(sdk_files)

check_swift_files(t) ==
    LET swift_files == SelectSeq(RGlobSuffix(t, ".swift"), LAMBDA f : f.readable)
        sdk_files == SelectSeq(swift_files,
                               LAMBDA f : /\ Has(f.text, "TrustArc")
                                          /\ Has(f.text, "import trustarc_consent_sdk"))
    IN  IF Len(sdk_files) = 0
        THEN <<Issue(ERROR, "Implementation",
                     "No TrustArc SDK usage found in Swift files",
                     None, NoLine,
                     "Import SDK with: import trustarc_consent_sdk")>>
        ELSE check_initialization_patterns(sdk_files)

(***************************************************************************)
(* RuleSet: React Native and Flutter.                                      *)
(***************************************************************************)
\* str(path): paths are written relative to the project root
StrPath(f) == f.path

\* str(e) of the exception open / json.load / data.get raises on the file
ReadErrorText(f) ==
    IF ~f.readable THEN "[Errno 13] Permission denied"
    ELSE IF f.json.kind = "invalid" THEN "Expecting value: line 1 column 1 (char 0)"
    ELSE "'list' object has no attribute 'get'"

check_package_json(t) ==
    IF ~ExistsAtRoot(t, "package.json")
    THEN <<Issue(ERROR, "Configuration", "package.json not found",
                 None, NoLine,
                 "Ensure you're in a React Native project directory")>>
    ELSE LET f == RootFile(t, "package.json") IN
         IF ~JsonLoads(f)
         THEN <<Issue(ERROR, "Configuration",
                      "Error reading package.json: " \o ReadErrorText(f),
                      None, NoLine, None)>>
         ELSE IF \E dep \in MergedDeps(f.json) : Contains(Lower(dep), "trustarc")
         THEN <<Issue(SUCCESS, "Dependency",
                      "TrustArc package found in package.json",
                      StrPath(f), NoLine, None)>>
         ELSE <<Issue(ERROR, "Dependency",
                      "TrustArc package not found in dependencies",
                      None, NoLine,
                      "Add TrustArc React Native SDK to package.json")>>

\* 'trustarc' in content.lower() or 'TrustArc' in content
MentionsSdk(f) == HasLower(f.text, "trustarc") \/ Has(f.text, "TrustArc")

check_js_ts_files(t) ==
    LET all_files == RGlobSuffix(t, ".js") \o RGlobSuffix(t, ".jsx")
                     \o RGlobSuffix(t, ".ts") \o RGlobSuffix(t, ".tsx")
        code_files == SelectSeq(all_files, LAMBDA f : ~Contains(StrPath(f), "node_modules"))
        sdk_files == SelectSeq(code_files, LAMBDA f : f.readable /\ MentionsSdk(f))
    IN  IF Len(sdk_files) = 0
        THEN <<Issue(WARNING, "Implementation",
                     "No TrustArc SDK usage found in code files",
                     None, NoLine,
                     "Import and use TrustArc SDK in your code")>>
        ELSE <<>>

check_pubspec(t) ==
    IF ~ExistsAtRoot(t, "pubspec.yaml")
    THEN <<Issue(ERROR, "Configuration", "pubspec.yaml not found",
                 None, NoLine,
                 "Ensure you're in a Flutter project directory")>>
    ELSE LET f == RootFile(t, "pubspec.yaml") IN
         IF ~f.readable
         THEN <<Issue(ERROR, "Configuration",
                      "Error reading pubspec.yaml: " \o ReadErrorText(f),
                      None, NoLine, None)>>
         ELSE IF HasLower(f.text, "trustarc")
         THEN <<Issue(SUCCESS, "Dependency",
                      "TrustArc package found in pubspec.yaml",
                      StrPath(f), NoLine, None)>>
         ELSE <<Issue(ERROR, "Dependency",
                      "TrustArc package not found in pubspec.yaml",
                      None, NoLine,
                      "Add TrustArc Flutter SDK to dependencies")>>

\* a usage check that says nothing when the project holds no Dart file at all
check_dart_files_quiet(t) ==
    LET dart_files == RGlobSuffix(t, ".dart")
        sdk_files == SelectSeq(dart_files, LAMBDA f : f.readable /\ MentionsSdk(f))
    IN  IF Len(dart_files) > 0 /\ Len(sdk_files) = 0
        THEN <<Issue(WARNING, "Implementation",
                     "No TrustArc SDK usage found in Dart files",
                     None, NoLine,
                     "Import and use TrustArc SDK in your code")>>
        ELSE <<>>

check_dart_files(t) ==
    LET dart_files == RGlobSuffix(t, ".dart")
        sdk_files == SelectSeq(dart_files, LAMBDA f : f.readable /\ MentionsSdk(f))
    IN  IF Len(sdk_files) = 0
        THEN <<Issue(WARNING, "Implementation",
                     "No TrustArc SDK usage found in Dart files",
                     None, NoLine,
                     "Import and use TrustArc SDK in your code")>>
        ELSE <<>>

(***************************************************************************)
(* The scan of each RuleSet: its checks in their fixed order.              *)
(***************************************************************************)
AndroidDiagnostic_scan(t) ==
    check_gradle_dependency(t) \o check_manifest_permissions(t)
        \o check_kotlin_java_files(t) \o check_initialization_flow(t)

iOSDiagnostic_scan(t) == check_package_dependency(t) \o check_swift_files(t)

ReactNativeDiagnostic_scan(t) == check_package_json(t) \o check_js_ts_files(t)

FlutterDiagnostic_scan(t) == check_pubspec(t) \o check_dart_files(t)

\* the RuleSet of a platform, constructed on a tree and scanned
RuleSetScan(plat, t) ==
    CASE plat = ANDROID -> AndroidDiagnostic_scan(t)
      [] plat = IOS -> iOSDiagnostic_scan(t)
      [] plat = REACT_NATIVE -> ReactNativeDiagnostic_scan(t)
      [] plat = FLUTTER -> FlutterDiagnostic_scan(t)

(***************************************************************************)
(* DiagnosticOrchestrator: the flags of run_diagnostic and the advisory    *)
(* content attached to the report.                                         *)
(***************************************************************************)
RECURSIVE AnyIssue(_, _, _)
\* any(issue.category == cat and issue.severity == sev for issue in issues)
AnyIssue(iss, cat, sev) ==
    IF Len(iss) = 0 THEN FALSE
    ELSE IF Head(iss).category = cat /\ Head(iss).severity = sev THEN TRUE
    ELSE AnyIssue(Tail(iss), cat, sev)

\* a flag that looks at the severity alone
SdkFoundAnySuccess(iss) == \E k \in 1..Len(iss) : iss[k].severity = SUCCESS

\* line 1073
SdkFound(iss) == AnyIssue(iss, "Dependency", SUCCESS)

\* a flag that looks at the category alone
InitializationFoundAnySeverity(iss) == \E k \in 1..Len(iss) : iss[k].category = "Initialization"

\* line 1077
InitializationFound(iss) == AnyIssue(iss, "Initialization", SUCCESS)

\* AIReasoner.SEVERITY_PRIORITY
SeverityPriority(sev) ==
    CASE sev = ERROR -> 0
      [] sev = WARNING -> 1
      [] sev = INFO -> 2
      [] sev = SUCCESS -> 3

\* sorted(issues, key=_issue_priority): a stable sort
SortedByPriority(iss) ==
    SelectSeq(iss, LAMBDA i : SeverityPriority(i.severity) = 0)
    \o SelectSeq(iss, LAMBDA i : SeverityPriority(i.severity) = 1)
    \o SelectSeq(iss, LAMBDA i : SeverityPriority(i.severity) = 2)
    \o SelectSeq(iss, LAMBDA i : SeverityPriority(i.severity) = 3)

\* the question and the answer of one issue, by what they are built from
QuestionFor(i, plat) ==
    [question |-> <<i.category, plat>>,
     answer |-> <<i.severity, i.message, i.file_path, i.line_number, i.suggestion>>]

DefaultQuestion(plat) == [question |-> <<"lifecycle", plat>>, answer |-> <<"default">>]

\* AIReasoner.generate_context_questions
generate_context_questions(rep) ==
    LET prioritized == SortedByPriority(rep.issues)
        asked == SelectSeq(prioritized, LAMBDA i : i.severity \in {ERROR, WARNING})
        kept == SubSeq(asked, 1, Min(5, Len(asked)))
    IN  IF Len(kept) = 0 THEN <<DefaultQuestion(rep.platform)>>
        ELSE [k \in 1..Len(kept) |-> QuestionFor(kept[k], rep.platform)]

\* AIReasoner.generate_platform_neurolink, by what the text is built from
generate_platform_neurolink(rep) ==
    <<rep.platform, rep.sdk_found, rep.initialization_found,
      {rep.issues[k].category : k \in 1..Len(rep.issues)},
      CountSev(rep.issues, ERROR), CountSev(rep.issues, WARNING), CountSev(rep.issues, INFO)>>

\* len(GuideKnowledge.get_entries(platform))
GuideEntryCount(plat) ==
    CASE plat = ANDROID -> 4
      [] plat = IOS -> 4
      [] plat = REACT_NATIVE -> 3
      [] plat = FLUTTER -> 3
      [] OTHER -> 0

(***************************************************************************)
(* Functions applied on their own: calculate_score on every issue list,    *)
(* check_same_file_initialization_order on every file of a few lines.      *)
(***************************************************************************)
SeqsUpTo(S, n) == UNION {[1..k -> S] : k \in 0..n}

\* an issue of a given severity, as the scoring reads it
IssueOf(sev) == Issue(sev, "Initialization", "m", None, NoLine, None)

NoReport == [platform |-> UNKNOWN, issues |-> <<>>, sdk_found |-> FALSE,
             initialization_found |-> FALSE, score |-> 0,
             ai_questions |-> <<>>, platform_neurolink |-> None,
             guide_insights |-> <<>>, built |-> FALSE]

IdleInit ==
    /\ tree = <<>>
    /\ platform = UNKNOWN
    /\ issues = <<>>
    /\ report = NoReport
    /\ first_report = NoReport
    /\ exit_code = -1
    /\ ret = None

InitScore ==
    /\ IdleInit
    /\ pc = "call_score"
    /\ \E sevs \in SeqsUpTo(Severity, MaxIssues), sf \in BOOLEAN, inf \in BOOLEAN :
          arg = [issues |-> [k \in 1..Len(sevs) |-> IssueOf(sevs[k])],
                 sdk_found |-> sf, initialization_found |-> inf]

ApplyScore ==
    /\ pc = "call_score"
    /\ ret' = calculate_score(arg.issues, arg.sdk_found, arg.initialization_found)
    /\ pc' = "returned_score"
    /\ UNCHANGED <<tree, platform, issues, report, first_report, exit_code, arg>>

NextScore == ApplyScore

SpecScore == InitScore /\ [][NextScore]_vars

\* the lines a source file of SpecOrder is made of
LinePool == {"TrustArc(ctx, SdkMode.X)",
             "trustArc.start(domain)",
             "  .start(domain)",
             "lateinit var trustArc: TrustArc",
             ""}

InitOrder ==
    /\ IdleInit
    /\ pc = "call_order"
    /\ \E ls \in SeqsUpTo(LinePool, MaxLines) :
          /\ Len(ls) >= 1
          /\ arg = [file_path |-> "app/src/MainActivity.kt", content |-> JoinLines(ls)]

ApplyOrder ==
    /\ pc = "call_order"
    /\ ret' = check_same_file_initialization_order(arg.file_path, arg.content)
    /\ pc' = "returned_order"
    /\ UNCHANGED <<tree, platform, issues, report, first_report, exit_code, arg>>

NextOrder == ApplyOrder

SpecOrder == InitOrder /\ [][NextOrder]_vars


(***************************************************************************)
(* Project trees.  A tree is the concatenation of one choice per group of  *)
(* files; the source files of a platform are every sequence of at most     *)
(* MaxSrc texts of its pool, the k-th at the k-th path.                    *)
(***************************************************************************)
PkgPlain == JObject({"react"}, {"jest"})
PkgRN == JObject({"react", "react-native"}, {})
PkgRNDev == JObject({"react"}, {"react-native"})
PkgRNSdk == JObject({"react-native", "@trustarc/trustarc-react-native-consent-sdk"}, {})
PkgRNSdkCaps == JObject({"react-native"}, {"TrustArc-mock"})

PubspecChoices ==
    {<<>>, <<Unreadable("pubspec.yaml")>>,
     <<TextFile("pubspec.yaml", PubspecPlain)>>,
     <<TextFile("pubspec.yaml", PubspecFlutter)>>,
     <<TextFile("pubspec.yaml", PubspecFlutterCaps)>>}

PackageJsonChoices ==
    {<<>>, <<Unreadable("package.json")>>,
     <<JsonFile("package.json", JInvalid)>>,
     <<JsonFile("package.json", JArray)>>,
     <<JsonFile("package.json", PkgPlain)>>,
     <<JsonFile("package.json", PkgRN)>>,
     <<JsonFile("package.json", PkgRNDev)>>}

IosMarkerChoices ==
    {<<>>, <<Unreadable("ios/App.xcodeproj")>>, <<Unreadable("App.xcworkspace")>>,
     <<TextFile("Podfile", PodfilePlain)>>,
     <<TextFile("ios/Podfile", PodfilePlain)>>}

GradleMarkerChoices ==
    {<<>>, <<TextFile("build.gradle", GradlePlain)>>,
     <<TextFile("build.gradle.kts", GradlePlain)>>,
     <<TextFile("app/build.gradle", GradlePlain)>>,
     <<TextFile("app/build.gradle.kts", GradlePlain)>>}

\* trees that vary the marker files platform detection reads
DetectTrees ==
    {a \o b \o c \o d : a \in PubspecChoices, b \in PackageJsonChoices,
                        c \in IosMarkerChoices, d \in GradleMarkerChoices}

\* the sequences of at most n files, the k-th with path paths[k] and a text of pool
SourceSeqs(paths, pool, n) ==
    {[k \in 1..Len(texts) |-> TextFile(paths[k], texts[k])] :
        texts \in SeqsUpTo(pool, Min(n, Len(paths)))}

KotlinPaths == <<"app/src/main/A.kt", "app/src/main/B.java", "app/src/main/C.kt",
                 "app/src/main/D.kt", "app/src/main/E.java">>
KotlinPool == {KtPlain, KtDirectOk, KtDirectReversed, KtCtorOnly, KtStartSingleton,
               KtProvider, KtManagerInjected, KtAppHilt}

AndroidGradleChoices ==
    {<<TextFile("app/build.gradle", GradlePlain)>>,
     <<Unreadable("build.gradle"), TextFile("app/build.gradle", GradleSdk)>>,
     <<TextFile("app/build.gradle.kts", GradleAlias),
       TextFile("gradle/libs.versions.toml", TomlUnversioned)>>,
     <<TextFile("build.gradle", GradlePlain),
       TextFile("gradle/libs.versions.toml", TomlVersioned)>>}

AndroidManifestChoices ==
    {<<>>,
     <<TextFile("app/src/main/AndroidManifest.xml", ManifestInternet)>>,
     <<TextFile("app/src/main/AndroidManifest.xml", ManifestBoth)>>}

AndroidTrees ==
    {g \o m \o src : g \in AndroidGradleChoices, m \in AndroidManifestChoices,
                     src \in SourceSeqs(KotlinPaths, KotlinPool, MaxSrc)}

SwiftPaths == <<"App/AppDelegate.swift", "App/Consent.swift", "App/Views.swift",
                "App/Model.swift">>
SwiftPool == {SwiftPlain, SwiftFull, SwiftDomainOnly, SwiftStartOnly, SwiftDebug}

IosPackageChoices ==
    {<<>>, <<TextFile("Package.swift", PackageSwiftSdk)>>,
     <<TextFile("Package.swift", PackageSwiftPlain)>>}

IosPodfileChoices ==
    {<<>>, <<TextFile("Podfile", PodfileSdk)>>, <<TextFile("ios/Podfile", PodfilePlain)>>}

IosTrees ==
    {<<Unreadable("App.xcodeproj")>> \o a \o b \o src :
        a \in IosPackageChoices, b \in IosPodfileChoices,
        src \in SourceSeqs(SwiftPaths, SwiftPool, MaxSrc)}

JsPaths == <<"src/App.js", "node_modules/@trustarc/sdk/index.js", "src/consent.tsx",
             "src/util.ts">>
JsPool == {JsPlain, JsSdk}

ReactNativeTrees ==
    {<<JsonFile("package.json", pkg)>> \o src :
        pkg \in {PkgRN, PkgRNDev, PkgRNSdk, PkgRNSdkCaps},
        src \in SourceSeqs(JsPaths, JsPool, MaxSrc)}

DartPaths == <<"lib/main.dart", "lib/consent.dart", "lib/util.dart", "test/a.dart">>
DartPool == {DartPlain, DartSdk}

FlutterTrees ==
    {<<TextFile("pubspec.yaml", ps)>> \o src :
        ps \in {PubspecFlutter, PubspecFlutterCaps, PubspecFlutterSdk},
        src \in SourceSeqs(DartPaths, DartPool, MaxSrc)}

\* trees whose marker files or manifests lie under node_modules
VendoredTrees ==
    {<<TextFile("node_modules/react-native/android/build.gradle", GradlePlain)>>,
     <<Unreadable("node_modules/react-native/ios/RN.xcodeproj"),
       TextFile("node_modules/react-native/ios/Bridge.swift", SwiftFull)>>,
     <<TextFile("app/build.gradle", GradlePlain),
       TextFile("app/src/main/AndroidManifest.xml", ManifestInternet),
       TextFile("node_modules/sdk/android/build.gradle", GradleSdk),
       TextFile("node_modules/sdk/android/AndroidManifest.xml", ManifestBoth),
       TextFile("node_modules/sdk/android/Sdk.kt", KtDirectOk)>>}

Trees ==
    DetectTrees \cup AndroidTrees \cup IosTrees \cup ReactNativeTrees \cup FlutterTrees
        \cup VendoredTrees

(***************************************************************************)
(* main, ProjectDiagnostic.__init__ and run_diagnostic, one step per       *)
(* check of the RuleSet that runs.                                         *)
(***************************************************************************)
\* a RuleSet whose issue list outlives the scan that filled it
SharedIssues(old) == old

\* self.issues: List[Issue] = [] of a RuleSet's __init__; `issues = []` of run_diagnostic
FreshIssues(old) == <<>>

Init ==
    /\ tree \in Trees
    /\ platform = UNKNOWN
    /\ pc = "start"
    /\ issues = <<>>
    /\ report = NoReport
    /\ first_report = NoReport
    /\ exit_code = -1
    /\ arg = None
    /\ ret = None

\* ProjectDiagnostic(project_path)
Construct ==
    /\ pc = "start"
    /\ platform' = detect_platform(tree)
    /\ pc' = "constructed"
    /\ UNCHANGED <<tree, issues, report, first_report, exit_code, arg, ret>>

FirstCheck(plat) ==
    CASE plat = ANDROID -> "android_dependency"
      [] plat = IOS -> "ios_dependency"
      [] plat = REACT_NATIVE -> "rn_package_json"
      [] plat = FLUTTER -> "flutter_pubspec"
      [] OTHER -> "unknown_platform"

\* run_diagnostic up to the construction of the RuleSet (lines 1048-1062)
RunDiagnostic ==
    /\ pc = "constructed"
    /\ issues' = FreshIssues(issues)
    /\ pc' = FirstCheck(platform)
    /\ UNCHANGED <<tree, platform, report, first_report, exit_code, arg, ret>>

\* a check that puts its issues in front of the earlier ones
CheckPrepending(here, found, next) ==
    /\ pc = here
    /\ issues' = found \o issues
    /\ pc' = next
    /\ UNCHANGED <<tree, platform, report, first_report, exit_code, arg, ret>>

\* one check of a scan: it appends its issues and the scan goes on
Check(here, found, next) ==
    /\ pc = here
    /\ issues' = issues \o found
    /\ pc' = next
    /\ UNCHANGED <<tree, platform, report, first_report, exit_code, arg, ret>>

AndroidDependency == Check("android_dependency", check_gradle_dependency(tree), "android_permissions")
AndroidPermissions == Check("android_permissions", check_manifest_permissions(tree), "android_sources")
AndroidSources == Check("android_sources", check_kotlin_java_files(tree), "android_flow")
AndroidFlow == Check("android_flow", check_initialization_flow(tree), "scanned")
IosDependency == Check("ios_dependency", check_package_dependency(tree), "ios_sources")
IosSources == Check("ios_sources", check_swift_files(tree), "scanned")
ReactNativePackageJson == Check("rn_package_json", check_package_json(tree), "rn_sources")
ReactNativeSources == Check("rn_sources", check_js_ts_files(tree), "scanned")
FlutterPubspec == Check("flutter_pubspec", check_pubspec(tree), "flutter_sources")
FlutterSources == Check("flutter_sources", check_dart_files(tree), "scanned")

\* an unknown platform reported as a warning
UnknownPlatformWarning ==
    <<Issue(WARNING, "Platform", "Unknown platform - could not detect project type",
            None, NoLine,
            "Ensure you're in a valid iOS, Android, React Native, or Flutter project")>>

\* lines 1064-1070
UnknownPlatformIssue ==
    <<Issue(ERROR, "Platform", "Unknown platform - could not detect project type",
            None, NoLine,
            "Ensure you're in a valid iOS, Android, React Native, or Flutter project")>>

UnknownPlatform == Check("unknown_platform", UnknownPlatformIssue, "scanned")

\* lines 1072-1090
BuildReport ==
    /\ pc = "scanned"
    /\ LET sdk_found == SdkFound(issues)
           initialization_found == InitializationFound(issues)
       IN  report' = [platform |-> platform, issues |-> issues,
                      sdk_found |-> sdk_found,
                      initialization_found |-> initialization_found,
                      score |-> calculate_score(issues, sdk_found, initialization_found),
                      ai_questions |-> <<>>, platform_neurolink |-> None,
                      guide_insights |-> <<>>, built |-> TRUE]
    /\ pc' = "built"
    /\ UNCHANGED <<tree, platform, issues, first_report, exit_code, arg, ret>>

\* an advisory step that sorts the issues of the report in place
AttachAdvisorySorting ==
    /\ pc = "built"
    /\ report' = [report EXCEPT
                    !.issues = SortedByPriority(report.issues),
                    !.guide_insights = [k \in 1..GuideEntryCount(platform) |-> k],
                    !.ai_questions = generate_context_questions(report),
                    !.platform_neurolink = generate_platform_neurolink(report)]
    /\ pc' = "reported"
    /\ UNCHANGED <<tree, platform, issues, first_report, exit_code, arg, ret>>

\* lines 1092-1102
AttachAdvisory ==
    /\ pc = "built"
    /\ report' = [report EXCEPT
                    !.guide_insights = [k \in 1..GuideEntryCount(platform) |-> k],
                    !.ai_questions = generate_context_questions(report),
                    !.platform_neurolink = generate_platform_neurolink(report)]
    /\ pc' = "reported"
    /\ UNCHANGED <<tree, platform, issues, first_report, exit_code, arg, ret>>

\* an exit status that asks for more than 70
ExitStatusAbove(score) == IF score > 70 THEN 0 ELSE 1

\* 0 if report.score >= 70 else 1
ExitStatus(score) == IF score >= 70 THEN 0 ELSE 1

\* sys.exit(0 if report.score >= 70 else 1)
Exit ==
    /\ pc = "reported"
    /\ exit_code' = ExitStatus(report.score)
    /\ pc' = "exited"
    /\ UNCHANGED <<tree, platform, issues, report, first_report, arg, ret>>

\* run_diagnostic called again on the same ProjectDiagnostic, the tree unmodified
RunAgain ==
    /\ pc = "reported"
    /\ ~first_report.built
    /\ first_report' = report
    /\ pc' = "constructed"
    /\ UNCHANGED <<tree, platform, issues, report, exit_code, arg, ret>>

\* the tool started again on the same, unmodified tree
StartAgain ==
    /\ pc = "exited"
    /\ ~first_report.built
    /\ first_report' = report
    /\ platform' = UNKNOWN
    /\ exit_code' = -1
    /\ pc' = "start"
    /\ UNCHANGED <<tree, issues, report, arg, ret>>

Next ==
    \/ Construct \/ RunDiagnostic
    \/ AndroidDependency \/ AndroidPermissions \/ AndroidSources \/ AndroidFlow
    \/ IosDependency \/ IosSources
    \/ ReactNativePackageJson \/ ReactNativeSources
    \/ FlutterPubspec \/ FlutterSources
    \/ UnknownPlatform
    \/ BuildReport \/ AttachAdvisory
    \/ Exit \/ RunAgain \/ StartAgain

Spec == Init /\ [][Next]_vars

(***************************************************************************)
(* check_kotlin_java_files applied on its own, on every list of at most    *)
(* MaxAnalyzed source files.                                               *)
(***************************************************************************)
AnalyzedPool == {KtPlain, KtDirectOk, KtDirectReversed, KtCtorOnly, KtStartOnly,
                 KtStartSingleton, KtProvider, KtManagerInjected, KtManagerPlain,
                 KtAppHilt, KtDebug}

InitAndroid ==
    /\ IdleInit
    /\ pc = "call_android"
    /\ \E src \in SourceSeqs(KotlinPaths, AnalyzedPool, MaxAnalyzed) : arg = [tree |-> src]

ApplyAndroid ==
    /\ pc = "call_android"
    /\ ret' = check_kotlin_java_files(arg.tree)
    /\ pc' = "returned_android"
    /\ UNCHANGED <<tree, platform, issues, report, first_report, exit_code, arg>>

NextAndroid == ApplyAndroid

SpecAndroid == InitAndroid /\ [][NextAndroid]_vars

(***************************************************************************)
(* The RuleSet of any platform scanned on its own on any tree, as a caller *)
(* of the classes may do without platform detection.                       *)
(***************************************************************************)
InitScan ==
    /\ IdleInit
    /\ pc = "call_scan"
    /\ \E p \in {ANDROID, IOS, REACT_NATIVE, FLUTTER}, t \in Trees :
          arg = [platform |-> p, tree |-> t]

ApplyScan ==
    /\ pc = "call_scan"
    /\ ret' = RuleSetScan(arg.platform, arg.tree)
    /\ pc' = "returned_scan"
    /\ UNCHANGED <<tree, platform, issues, report, first_report, exit_code, arg>>

NextScan == ApplyScan

SpecScan == InitScan /\ [][NextScan]_vars

(***************************************************************************)
(* The dependency checks of Android and iOS applied on their own, on every *)
(* combination of manifests: each absent, unreadable, or one of its texts. *)
(***************************************************************************)
\* the states of the file at a path: absent, unreadable, or holding a text of pool
FileChoices(path, pool) ==
    {<<>>, <<Unreadable(path)>>} \cup {<<TextFile(path, text)>> : text \in pool}

GradleManifestTrees ==
    {a \o b \o c \o d :
        a \in FileChoices("build.gradle", {GradlePlain, GradleSdk, GradleAlias}),
        b \in FileChoices("app/build.gradle.kts", {GradlePlain, GradleSdk, GradleAlias}),
        c \in FileChoices("gradle/libs.versions.toml", {TomlVersioned, TomlUnversioned, GradlePlain}),
        d \in FileChoices("lib/gradle/libs.versions.toml", {TomlVersioned, GradlePlain})}

SwiftManifestTrees ==
    {a \o b \o c \o d :
        a \in FileChoices("Package.swift", {PackageSwiftSdk, PackageSwiftPlain}),
        b \in FileChoices("Modules/Core/Package.swift", {PackageSwiftSdk, PackageSwiftPlain}),
        c \in FileChoices("Podfile", {PodfileSdk, PodfilePlain}),
        d \in FileChoices("ios/Podfile", {PodfileSdk, PodfilePlain})}

InitDependency ==
    /\ IdleInit
    /\ pc = "call_dependency"
    /\ \/ \E t \in GradleManifestTrees : arg = [platform |-> ANDROID, tree |-> t]
       \/ \E t \in SwiftManifestTrees : arg = [platform |-> IOS, tree |-> t]

ApplyGradleDependency ==
    /\ pc = "call_dependency"
    /\ arg.platform = ANDROID
    /\ ret' = check_gradle_dependency(arg.tree)
    /\ pc' = "returned_dependency"
    /\ UNCHANGED <<tree, platform, issues, report, first_report, exit_code, arg>>

ApplyPackageDependency ==
    /\ pc = "call_dependency"
    /\ arg.platform = IOS
    /\ ret' = check_package_dependency(arg.tree)
    /\ pc' = "returned_dependency"
    /\ UNCHANGED <<tree, platform, issues, report, first_report, exit_code, arg>>

NextDependency == ApplyGradleDependency \/ ApplyPackageDependency

SpecDependency == InitDependency /\ [][NextDependency]_vars

(***************************************************************************)
(* Claims on the functions applied on their own.                           *)
(***************************************************************************)
IsErrorOrWarning(i) == i.severity \in {ERROR, WARNING}

\* C1: calculate_score returns
\* max(0, min(100, 100 - 20*#error - 10*#warning - 30*(1 if not sdkFound else 0)));
\* dropping the info and success issues, or flipping initializationFound,
\* gives the same score.
C1_ScoreFormula ==
    pc = "returned_score" =>
        LET e == CountSev(arg.issues, ERROR)
            w == CountSev(arg.issues, WARNING)
            raw == 100 - 20 * e - 10 * w - (IF arg.sdk_found THEN 0 ELSE 30)
        IN  /\ ret = Max(0, Min(100, raw))
            /\ ret = calculate_score(SelectSeq(arg.issues, IsErrorOrWarning),
                                     arg.sdk_found, ~arg.initialization_found)

\* one error, one warning, one info and one success, dependency not found: 40
C1_Witness ==
    /\ pc = "returned_score"
    /\ CountSev(arg.issues, ERROR) = 1
    /\ CountSev(arg.issues, WARNING) = 1
    /\ CountSev(arg.issues, INFO) = 1
    /\ CountSev(arg.issues, SUCCESS) = 1
    /\ ~arg.sdk_found
    /\ ret = 40

\* the file of C9: five lines, the constructor on line 5, the start call on
\* line 3, the token trustArc on line 1, 2 or 3, no other constructor or start
C9_Scenario ==
    LET lines == SplitLines(arg.content)
    IN  /\ Len(lines) = 5
        /\ lines[5] = "TrustArc(ctx, SdkMode.X)"
        /\ SearchLitParen(".start", lines[3])
        /\ \E k \in 1..3 : Contains(lines[k], "trustArc")
        /\ \A k \in {1, 2, 4} :
              /\ ~SearchLitParen(".start", lines[k])
              /\ ~SearchLitParen("TrustArc", lines[k])

\* C9: on that file the same-file ordering analysis emits exactly one issue,
\* an error, with line_number = 4.
C9_OrderError ==
    (pc = "returned_order" /\ C9_Scenario) =>
        /\ Len(ret) = 1
        /\ ret[1].severity = ERROR
        /\ ret[1].line_number = 4

\* the Architecture successes among the issues
IsArchitectureSuccess(i) == i.category = "Architecture" /\ i.severity = SUCCESS

\* the files of C10: file p declares `@Provides fun provideTrustArc(): TrustArc`,
\* a separate file m is the manager file, holding .start( and @Inject; the
\* analysis runs (some file uses the SDK)
C10_Fixture(p, m) ==
    /\ p # m
    /\ Contains(arg.tree[p].text, "@Provides fun provideTrustArc(): TrustArc")
    /\ \E name \in {"ConsentManager", "TrustArcManager", "SdkManager"} :
          Contains(arg.tree[m].text, name)
    /\ Contains(arg.tree[m].text, ".start(")
    /\ Contains(arg.tree[m].text, "@Inject")
    /\ \A k \in 1..Len(arg.tree) :
          k # m => \A name \in {"ConsentManager", "TrustArcManager", "SdkManager"} :
                      ~Contains(arg.tree[k].text, name)
    /\ \E k \in 1..Len(arg.tree) :
          /\ Contains(arg.tree[k].text, "TrustArc")
          /\ Contains(arg.tree[k].text, "com.truste.androidmobileconsentsdk")

\* C10: with a provider file and a separate injected manager file holding the
\* start call, the analysis emits two Architecture successes and no error,
\* whatever direct constructor/start pairs the other files hold.
C10_DiFixture ==
    (pc = "returned_android" /\ \E p, m \in 1..Len(arg.tree) : C10_Fixture(p, m)) =>
        /\ Len(SelectSeq(ret, IsArchitectureSuccess)) = 2
        /\ CountSev(ret, ERROR) = 0

\* the fixture next to a file that starts the SDK before constructing it
C10_Witness ==
    /\ pc = "returned_android"
    /\ \E p, m \in 1..Len(arg.tree) : C10_Fixture(p, m)
    /\ \E k \in 1..Len(arg.tree) : arg.tree[k].text = KtDirectReversed
    /\ Len(SelectSeq(ret, IsArchitectureSuccess)) = 2
    /\ CountSev(ret, ERROR) = 0

(***************************************************************************)
(* Claims on the diagnostic run.                                           *)
(***************************************************************************)
\* C2: the score of every report is in 0..100, and it is 100 exactly when
\* the issues hold no error and no warning and sdkFound is true.
C2_ScoreRange ==
    report.built =>
        /\ report.score \in 0..100
        /\ report.score = 100 <=>
              /\ \A k \in 1..Len(report.issues) : ~IsErrorOrWarning(report.issues[k])
              /\ report.sdk_found

\* a report of score 100 that holds issues
C2_Witness ==
    /\ report.built
    /\ report.score = 100
    /\ report.sdk_found
    /\ Len(report.issues) >= 2
    /\ \A k \in 1..Len(report.issues) : ~IsErrorOrWarning(report.issues[k])

\* C3: sdkFound of a report is true exactly when one of its issues has
\* category "Dependency" and severity success.
C3_SdkFound ==
    report.built =>
        (report.sdk_found <=>
            \E k \in 1..Len(report.issues) :
                /\ report.issues[k].category = "Dependency"
                /\ report.issues[k].severity = SUCCESS)

\* a report whose dependency check succeeded, next to another success
C3_Witness ==
    /\ report.built
    /\ report.sdk_found
    /\ \E k \in 1..Len(report.issues) :
          report.issues[k].category = "Dependency" /\ report.issues[k].severity = SUCCESS
    /\ \E k \in 1..Len(report.issues) :
          report.issues[k].category # "Dependency" /\ report.issues[k].severity = SUCCESS

\* C4: initializationFound of a report is true exactly when one of its issues
\* has category "Initialization" and severity success.
C4_InitializationFound ==
    report.built =>
        (report.initialization_found <=>
            \E k \in 1..Len(report.issues) :
                /\ report.issues[k].category = "Initialization"
                /\ report.issues[k].severity = SUCCESS)

\* a report with a successful initialization finding
C4_Witness ==
    /\ report.built
    /\ report.initialization_found
    /\ \E k \in 1..Len(report.issues) :
          report.issues[k].category = "Initialization" /\ report.issues[k].severity = SUCCESS

\* the marker rules of platform detection, read off the tree
C5_Flutter ==
    \E k \in 1..Len(tree) :
        /\ tree[k].path = "pubspec.yaml"
        /\ tree[k].readable
        /\ Contains(Lower(tree[k].text), "flutter")

C5_ReactNative ==
    \E k \in 1..Len(tree) :
        /\ tree[k].path = "package.json"
        /\ tree[k].readable
        /\ tree[k].json.kind = "object"
        /\ "react-native" \in tree[k].json.dependencies \cup tree[k].json.devDependencies

C5_Ios ==
    \E k \in 1..Len(tree) :
        \/ EndsWith(tree[k].path, ".xcodeproj")
        \/ EndsWith(tree[k].path, ".xcworkspace")
        \/ tree[k].path = "Podfile"

C5_Android ==
    \E k \in 1..Len(tree) :
        \/ tree[k].path \in {"build.gradle", "build.gradle.kts"}
        \/ EndsWith(tree[k].path, "/build.gradle")
        \/ EndsWith(tree[k].path, "/build.gradle.kts")

\* C5: the detected platform is the first satisfied rule in the order flutter,
\* react-native, ios, android, and unknown exactly when no rule is satisfied.
C5_DecisionList ==
    pc # "start" =>
        /\ platform = (IF C5_Flutter THEN FLUTTER
                       ELSE IF C5_ReactNative THEN REACT_NATIVE
                       ELSE IF C5_Ios THEN IOS
                       ELSE IF C5_Android THEN ANDROID
                       ELSE UNKNOWN)
        /\ platform = UNKNOWN <=>
              ~(C5_Flutter \/ C5_ReactNative \/ C5_Ios \/ C5_Android)

\* every rule satisfied only from the third on: ios wins over android
C5_Witness ==
    /\ pc = "constructed"
    /\ ~C5_Flutter /\ ~C5_ReactNative /\ C5_Ios /\ C5_Android
    /\ \E k \in 1..Len(tree) : tree[k].path = "pubspec.yaml"
    /\ \E k \in 1..Len(tree) : tree[k].path = "package.json"
    /\ platform = IOS

\* a root manifest whose read or parse raises in detect_platform
C6_Broken(f) ==
    \/ f.path = "pubspec.yaml" /\ ~f.readable
    \/ f.path = "package.json" /\ (~f.readable \/ f.json.kind # "object")

\* the tree without its k-th file
C6_Without(t, k) == SubSeq(t, 1, k - 1) \o SubSeq(t, k + 1, Len(t))

C7_UnknownPlatform ==
    ~(C5_Flutter \/ C5_ReactNative \/ C5_Ios \/ C5_Android) =>
        /\ pc # "start" => platform = UNKNOWN
        /\ report.built =>
              /\ report.platform = UNKNOWN
              /\ Len(report.issues) = 1
              /\ report.issues[1].severity = ERROR
              /\ report.issues[1].category = "Platform"

\* the report on a tree that holds no file at all
C7_Witness ==
    /\ tree = <<>>
    /\ pc = "reported"
    /\ report.platform = UNKNOWN
    /\ Len(report.issues) = 1

\* C8: the report of a second run on the unmodified tree equals the first.
C8_Idempotent ==
    (first_report.built /\ pc \in {"reported", "exited"}) => report = first_report

\* a second report with several issues, equal to the first
C8_Witness ==
    /\ first_report.built
    /\ pc = "reported"
    /\ Len(report.issues) >= 2
    /\ report = first_report

\* the project of C11: nothing but a readable pubspec.yaml that names no SDK,
\* scanned by the Flutter RuleSet
C11_Scenario ==
    /\ report.built
    /\ report.platform = FLUTTER
    /\ Len(tree) = 1
    /\ tree[1].path = "pubspec.yaml"
    /\ tree[1].readable
    /\ ~Contains(Lower(tree[1].text), "trustarc")

\* C11 as stated: on that project the scan yields exactly one error, of
\* category "Dependency", sdkFound is false and the score is 50.
C11_ScoreFifty ==
    C11_Scenario =>
        /\ CountSev(report.issues, ERROR) = 1
        /\ \E k \in 1..Len(report.issues) :
              report.issues[k].severity = ERROR /\ report.issues[k].category = "Dependency"
        /\ ~report.sdk_found
        /\ report.score = 50

\* C11 amended: the scan yields the "Dependency" error and then the
\* "Implementation" warning of the usage check, sdkFound is false and the
\* score is 100 - 20 - 10 - 30 = 40.
C11_ScoreForty ==
    C11_Scenario =>
        /\ Len(report.issues) = 2
        /\ report.issues[1].severity = ERROR
        /\ report.issues[1].category = "Dependency"
        /\ report.issues[2].severity = WARNING
        /\ report.issues[2].category = "Implementation"
        /\ ~report.sdk_found
        /\ report.score = 40

C11_Witness == C11_Scenario /\ pc = "reported" /\ report.score = 40

\* what the claims on the Android analysis read in the text of a source file
SrcUsesSdk(f) ==
    Contains(f.text, "TrustArc") /\ Contains(f.text, "com.truste.androidmobileconsentsdk")
SrcHasDiMarker(f) ==
    \E anno \in {"@Module", "@Provides", "@Singleton", "@Inject",
                 "@HiltAndroidApp", "@AndroidEntryPoint"} : Contains(f.text, anno)
SrcConstructs(f) ==
    SrcUsesSdk(f) /\ SearchLitParen("TrustArc", f.text) /\ Contains(f.text, "SdkMode.")
SrcStarts(f) == SrcUsesSdk(f) /\ SearchLitParen(".start", f.text)

\* the files of C12: no DI marker anywhere, a constructor in file a, a start
\* call with the singleton accessor in another file b, no file holding both
C12_Scenario ==
    /\ pc = "returned_android"
    /\ \A k \in 1..Len(arg.tree) :
          /\ ~SrcHasDiMarker(arg.tree[k])
          /\ ~(SrcConstructs(arg.tree[k]) /\ SrcStarts(arg.tree[k]))
    /\ \E a, b \in 1..Len(arg.tree) :
          /\ a # b
          /\ SrcConstructs(arg.tree[a])
          /\ SrcStarts(arg.tree[b])
          /\ Contains(arg.tree[b].text, "TASharedInstance")

\* C12: in the cross-file case with a singleton accessor the analysis emits
\* exactly one success, of category "Initialization", and no error.
C12_CrossFileSingleton ==
    C12_Scenario =>
        /\ CountSev(ret, SUCCESS) = 1
        /\ \E k \in 1..Len(ret) :
              ret[k].severity = SUCCESS /\ ret[k].category = "Initialization"
        /\ CountSev(ret, ERROR) = 0

\* the scenario with a third file that starts the SDK without the accessor
C12_Witness ==
    /\ C12_Scenario
    /\ \E k \in 1..Len(arg.tree) :
          SrcStarts(arg.tree[k]) /\ ~Contains(arg.tree[k].text, "TASharedInstance")
    /\ CountSev(ret, SUCCESS) = 1

\* C13: the exit status is 0 exactly when the score of the report is at
\* least 70, and 1 otherwise.
C13_ExitStatus ==
    pc = "exited" =>
        /\ exit_code \in {0, 1}
        /\ exit_code = 0 <=> report.score >= 70

\* a report whose score is exactly 70: the run exits with 0
C13_Witness == pc = "exited" /\ report.score = 70 /\ exit_code = 0

\* a is a prefix of b
IsPrefix(a, b) == Len(a) <= Len(b) /\ SubSeq(b, 1, Len(a)) = a

\* the place of a check in its scan, read off the category of its issues
C14_Rank(plat, cat) ==
    IF cat = "Dependency" THEN 1
    ELSE IF plat = ANDROID /\ cat = "Permissions" THEN 2
    ELSE 3

\* the issues of a report stand in the order of the checks of its platform
C14_InCheckOrder ==
    (report.built /\ report.platform \in {ANDROID, IOS}) =>
        \A i, j \in 1..Len(report.issues) :
            i < j => C14_Rank(report.platform, report.issues[i].category)
                        <= C14_Rank(report.platform, report.issues[j].category)

\* every step of a scan leaves the issues appended so far in place
C14_StepAppends == pc # "constructed" => IsPrefix(issues, issues')

\* C14: the issues of a report are in check-execution order (dependency,
\* then permissions on Android, then usage and initialization), and during
\* a scan the issue list only ever grows at its end.
C14_AppendOnly == [](C14_InCheckOrder) /\ [][C14_StepAppends]_vars

\* an Android scan that has appended issues of all three checks
C14_Witness ==
    /\ pc = "scanned"
    /\ platform = ANDROID
    /\ Len(issues) >= 4
    /\ issues[1].category = "Dependency"
    /\ issues[2].category = "Permissions"
    /\ issues[3].category = "Permissions"
    /\ issues[4].category \notin {"Dependency", "Permissions"}

\* the advisory step leaves the diagnostic result of the report as it was
C15_StepKeepsResult ==
    pc = "built" =>
        /\ report'.platform = report.platform
        /\ report'.issues = report.issues
        /\ report'.sdk_found = report.sdk_found
        /\ report'.initialization_found = report.initialization_found
        /\ report'.score = report.score
        /\ issues' = issues

\* C15: attaching the context questions, the platform neurolink and the
\* guide insights changes neither the platform, the issue sequence, the two
\* flags nor the score of the report.
C15_AdvisoryFrame == [][C15_StepKeepsResult]_vars

\* a report with its advisory content whose issues are not in severity order
C15_Witness ==
    /\ pc = "reported"
    /\ Len(report.ai_questions) >= 2
    /\ SortedByPriority(report.issues) # report.issues

\* the files of a tree that do not lie under a vendored directory
C16_Unvendored(t) == SelectSeq(t, LAMBDA f : ~Contains(f.path, "node_modules/"))

\* the issues of the scan of a platform on a tree
C16_Scan(plat, t) ==
    CASE plat = ANDROID ->
            check_gradle_dependency(t) \o check_manifest_permissions(t)
                \o check_kotlin_java_files(t) \o check_initialization_flow(t)
      [] plat = IOS -> check_package_dependency(t) \o check_swift_files(t)
      [] plat = REACT_NATIVE -> check_package_json(t) \o check_js_ts_files(t)
      [] plat = FLUTTER -> check_pubspec(t) \o check_dart_files(t)
      [] OTHER -> UnknownPlatformIssue

\* C16: files under vendored directories are left out of every discovery:
\* the platform and the issues of a report are those of the tree without
\* its vendored files.
C16_VendoredExcluded ==
    report.built =>
        /\ report.platform = detect_platform(C16_Unvendored(tree))
        /\ report.issues = C16_Scan(report.platform, C16_Unvendored(tree))

\* the manifests of a platform, as its dependency check looks for them
C17_Manifests(plat, t) ==
    CASE plat = ANDROID ->
            SelectSeq(t, LAMBDA f : \/ StartsWith(Basename(f.path), "build.gradle")
                                    \/ Basename(f.path) = "libs.versions.toml")
      [] plat = IOS ->
            SelectSeq(t, LAMBDA f : Basename(f.path) \in {"Package.swift", "Podfile"})
      [] plat = REACT_NATIVE -> SelectSeq(t, LAMBDA f : f.path = "package.json")
      [] plat = FLUTTER -> SelectSeq(t, LAMBDA f : f.path = "pubspec.yaml")

\* a manifest that cannot be read or parsed
C17_Malformed(plat, f) ==
    \/ ~f.readable
    \/ plat = REACT_NATIVE /\ f.json.kind # "object"

\* C17: a scan recovers from unreadable and malformed files: no issue
\* describes a read or parse failure, and when the manifests of the platform
\* exist but are all unreadable or malformed, the Dependency error is issued.
C17_LocalRecovery ==
    pc = "returned_scan" =>
        LET manifests == C17_Manifests(arg.platform, arg.tree)
        IN  /\ \A k \in 1..Len(ret) : ~StartsWith(ret[k].message, "Error reading")
            /\ (/\ Len(manifests) > 0
                /\ \A k \in 1..Len(manifests) : C17_Malformed(arg.platform, manifests[k]))
               => \E k \in 1..Len(ret) :
                      ret[k].severity = ERROR /\ ret[k].category = "Dependency"

\* the readable manifests of each format that hold an SDK identifier of it
C18_First(plat, t) ==
    LET named(f, ids) == f.readable /\ \E id \in ids : Contains(f.text, id)
    IN  IF plat = ANDROID
        THEN SelectSeq(t, LAMBDA f :
                 /\ StartsWith(Basename(f.path), "build.gradle")
                 /\ named(f, {"com.trustarc:trustarc-consent-sdk", "trustarc.consent.sdk"}))
        ELSE SelectSeq(t, LAMBDA f :
                 /\ Basename(f.path) = "Package.swift"
                 /\ named(f, {"TrustArcMobileConsent", "trustarc-mobile-consent",
                              "trustarc_consent_sdk"}))

C18_Second(plat, t) ==
    LET named(f, ids) == f.readable /\ \E id \in ids : Contains(f.text, id)
    IN  IF plat = ANDROID
        THEN SelectSeq(t, LAMBDA f :
                 /\ Basename(f.path) = "libs.versions.toml"
                 /\ named(f, {"trustarc-consent-sdk", "trustarcConsentSdk"}))
        ELSE SelectSeq(t, LAMBDA f :
                 /\ Basename(f.path) = "Podfile"
                 /\ named(f, {"TrustArcMobileConsent", "trustarc_consent_sdk"}))

\* C18: the dependency check appends exactly one issue, of category
\* "Dependency": a success citing the first matching manifest (build.gradle*
\* before libs.versions.toml, Package.swift before Podfile), or, when no
\* manifest matches, an error with a suggestion.
C18_OneDependencyIssue ==
    pc = "returned_dependency" =>
        LET first == C18_First(arg.platform, arg.tree)
            second == C18_Second(arg.platform, arg.tree)
            matching == first \o second
        IN  /\ Len(ret) = 1
            /\ ret[1].category = "Dependency"
            /\ IF Len(matching) > 0
               THEN ret[1].severity = SUCCESS /\ ret[1].file_path = matching[1].path
               ELSE ret[1].severity = ERROR /\ ret[1].suggestion # None

\* two build files and a catalog all name the SDK: the first build file is cited
C18_Witness ==
    /\ pc = "returned_dependency"
    /\ Len(C18_First(arg.platform, arg.tree)) = 2
    /\ Len(C18_Second(arg.platform, arg.tree)) >= 1
    /\ Len(ret) = 1
    /\ ret[1].file_path = C18_First(arg.platform, arg.tree)[1].path

\* the messages only the traditional path writes, and only the DI path
C19_TraditionalMessages ==
    {"TrustArc instance never created",
     "TrustArc instance created but start() never called",
     "start() called before TrustArc constructor",
     "TrustArc properly initialized with start()",
     "Using singleton pattern for cross-activity access",
     "TrustArc constructor and start() in different files"}
C19_DiMessages ==
    {"TrustArc provided via Dependency Injection",
     "Initialization encapsulated in injected manager class",
     "SDK initialized in Application class",
     "TrustArc provided via DI but start() never called"}

C19_Files == {arg.tree[k] : k \in 1..Len(arg.tree)}
C19_Messages == {ret[k].message : k \in 1..Len(ret)}

\* C19: when the analysis runs (some file uses the SDK), a DI marker in any
\* scanned file leaves no finding of the traditional path in the result;
\* with no DI marker no finding of the DI path is written and the
\* traditional path has run: it reports the missing constructor, the missing
\* start call, or the cross-file layout.
C19_ArchitectureBranch ==
    (pc = "returned_android" /\ \E f \in C19_Files : SrcUsesSdk(f)) =>
        IF \E f \in C19_Files : SrcHasDiMarker(f)
        THEN C19_Messages \cap C19_TraditionalMessages = {}
        ELSE /\ C19_Messages \cap C19_DiMessages = {}
             /\ (~\E f \in C19_Files : SrcConstructs(f))
                    => "TrustArc instance never created" \in C19_Messages
             /\ ((\E f \in C19_Files : SrcConstructs(f)) /\ ~\E f \in C19_Files : SrcStarts(f))
                    => "TrustArc instance created but start() never called" \in C19_Messages
             /\ (/\ \E f \in C19_Files : SrcConstructs(f)
                 /\ \E f \in C19_Files : SrcStarts(f)
                 /\ ~\E f \in C19_Files : SrcConstructs(f) /\ SrcStarts(f))
                    => \E m \in C19_Messages :
                          m \in {"Using singleton pattern for cross-activity access",
                                 "TrustArc constructor and start() in different files"}

\* the DI marker sits in a file that does not use the SDK, beside an SDK-usage
\* file that constructs and never starts: the DI path ran all the same
C19_Witness ==
    /\ pc = "returned_android"
    /\ \E f \in C19_Files : SrcConstructs(f)
    /\ ~\E f \in C19_Files : SrcStarts(f)
    /\ \E f \in C19_Files : SrcHasDiMarker(f)
    /\ ~\E f \in C19_Files : SrcHasDiMarker(f) /\ SrcUsesSdk(f)
    /\ C19_Messages \cap C19_TraditionalMessages = {}

\* the traditional path has run on files of which none holds a DI marker
C19_WitnessTraditional ==
    /\ pc = "returned_android"
    /\ \E f \in C19_Files : SrcUsesSdk(f)
    /\ ~\E f \in C19_Files : SrcHasDiMarker(f)
    /\ C19_Messages \cap C19_TraditionalMessages # {}

\* the files with a constructor site in the order the analysis visits the
\* sources: every .kt file of the walk, then every .java file
C20_ConstructorFiles ==
    SelectSeq(SelectSeq(arg.tree, LAMBDA f : EndsWith(f.path, ".kt"))
              \o SelectSeq(arg.tree, LAMBDA f : EndsWith(f.path, ".java")),
              SrcConstructs)

\* the analysis took the traditional path: an SDK-usage file and no DI marker
C20_Traditional ==
    /\ pc = "returned_android"
    /\ \E f \in C19_Files : SrcUsesSdk(f)
    /\ ~\E f \in C19_Files : SrcHasDiMarker(f)

\* C20: on the traditional path, with no constructor site the result is the
\* single Initialization error "instance never created"; with constructor
\* sites and no start call it is the single Initialization error "created
\* but start() never called" whose file is the first constructor file; in
\* both cases nothing else is reported.
C20_EarlyStops ==
    C20_Traditional =>
        /\ Len(C20_ConstructorFiles) = 0 =>
              /\ Len(ret) = 1
              /\ ret[1].severity = ERROR
              /\ ret[1].category = "Initialization"
              /\ ret[1].message = "TrustArc instance never created"
        /\ (Len(C20_ConstructorFiles) > 0 /\ ~\E f \in C19_Files : SrcStarts(f)) =>
              /\ Len(ret) = 1
              /\ ret[1].severity = ERROR
              /\ ret[1].category = "Initialization"
              /\ ret[1].message = "TrustArc instance created but start() never called"
              /\ ret[1].file_path = C20_ConstructorFiles[1].path

\* two files construct, none starts and none enables debug logging: one error
C20_Witness ==
    /\ C20_Traditional
    /\ Len(C20_ConstructorFiles) = 2
    /\ ~\E f \in C19_Files : SrcStarts(f)
    /\ ~\E f \in C19_Files : Contains(f.text, ".enableDebugLog(")
    /\ Len(ret) = 1
    /\ ret[1].file_path = C20_ConstructorFiles[1].path

\* an SDK-usage file and no constructor anywhere: one error
C20_WitnessNeverCreated ==
    /\ C20_Traditional
    /\ Len(C20_ConstructorFiles) = 0
    /\ Len(ret) = 1
    /\ ret[1].message = "TrustArc instance never created"

\* the 1-based number of the last line of a text that holds a constructor
\* call, and of the last line that holds a start call and has the variable
\* name trustArc on it or on one of the two lines before it; 0 when none
C21_ConstructorLine(text) ==
    LET lines == SplitLines(text)
        at == {k \in 1..Len(lines) : SearchLitParen("TrustArc", lines[k])}
    IN  IF at = {} THEN 0 ELSE CHOOSE k \in at : \A j \in at : j <= k

C21_StartLine(text) ==
    LET lines == SplitLines(text)
        at == {k \in 1..Len(lines) :
                  /\ SearchLitParen(".start", lines[k])
                  /\ \E j \in Max(1, k - 2)..k : Contains(lines[j], "trustArc")}
    IN  IF at = {} THEN 0 ELSE CHOOSE k \in at : \A j \in at : j <= k

\* C21: on the traditional path, every file holding a constructor line and a
\* start line with the variable name in its look-back window gets an error
\* carrying the 1-based start line when the start line comes first, and an
\* Initialization success when the constructor comes first or shares the line.
C21_SameFileOrdering ==
    C20_Traditional =>
        \A f \in C19_Files :
            (/\ SrcConstructs(f) /\ SrcStarts(f)
             /\ C21_ConstructorLine(f.text) > 0 /\ C21_StartLine(f.text) > 0) =>
                IF C21_StartLine(f.text) < C21_ConstructorLine(f.text)
                THEN \E k \in 1..Len(ret) :
                        /\ ret[k].severity = ERROR
                        /\ ret[k].file_path = f.path
                        /\ ret[k].line_number = C21_StartLine(f.text)
                ELSE \E k \in 1..Len(ret) :
                        /\ ret[k].severity = SUCCESS
                        /\ ret[k].category = "Initialization"
                        /\ ret[k].file_path = f.path

\* the traditional path on constructor files and start files that are both
\* non-empty and disjoint
C22_CrossFile ==
    /\ C20_Traditional
    /\ \E f \in C19_Files : SrcConstructs(f)
    /\ \E f \in C19_Files : SrcStarts(f)
    /\ ~\E f \in C19_Files : SrcConstructs(f) /\ SrcStarts(f)

C22_Accessor ==
    \E f \in C19_Files :
        SrcStarts(f) /\ (Contains(f.text, "TASharedInstance") \/ Contains(f.text, "getSdkInstance"))

C22_SplitNotes ==
    {k \in 1..Len(ret) : ret[k].message = "TrustArc constructor and start() in different files"}

\* C22: in the cross-file case the analysis emits no error; with the
\* singleton accessor in a start file it emits one success and no split
\* note, otherwise no success and exactly one split note, of severity info
\* with a suggestion.
C22_CrossFileNeverError ==
    C22_CrossFile =>
        /\ CountSev(ret, ERROR) = 0
        /\ IF C22_Accessor
           THEN CountSev(ret, SUCCESS) = 1 /\ C22_SplitNotes = {}
           ELSE /\ CountSev(ret, SUCCESS) = 0
                /\ Cardinality(C22_SplitNotes) = 1
                /\ \A k \in C22_SplitNotes : ret[k].severity = INFO /\ ret[k].suggestion # None

\* construction and start split over two files, no accessor: the note
C22_Witness ==
    /\ C22_CrossFile
    /\ ~C22_Accessor
    /\ Cardinality(C22_SplitNotes) = 1
    /\ CountSev(ret, ERROR) = 0

\* the debug-logging notes of the result, and whether an SDK-usage file
\* enables debug logging
C23_DebugNotes ==
    {k \in 1..Len(ret) :
        /\ ret[k].severity = INFO
        /\ ret[k].category = "Configuration"
        /\ ret[k].message = "Consider enabling debug logging for development"}

C23_DebugEnabled ==
    \E f \in C19_Files : SrcUsesSdk(f) /\ SearchLitParen(".enableDebugLog", f.text)

\* C23 as stated: on the traditional path, whatever branch is taken, the
\* result holds exactly one debug-logging note when no SDK-usage file
\* enables debug logging and none when one does.
C23_DebugNoteEveryBranch ==
    C20_Traditional =>
        Cardinality(C23_DebugNotes) = (IF C23_DebugEnabled THEN 0 ELSE 1)

\* C23 amended: the same, on the branches that are reached when a
\* constructor site and a start call both exist (same file or cross-file);
\* the two early stops report their error and no note.
C23_DebugNoteAfterBranch ==
    (/\ C20_Traditional
     /\ \E f \in C19_Files : SrcConstructs(f)
     /\ \E f \in C19_Files : SrcStarts(f)) =>
        Cardinality(C23_DebugNotes) = (IF C23_DebugEnabled THEN 0 ELSE 1)

\* constructor and start present, debug logging enabled in an SDK-usage file:
\* no note
C23_Witness ==
    /\ C20_Traditional
    /\ \E f \in C19_Files : SrcConstructs(f)
    /\ \E f \in C19_Files : SrcStarts(f)
    /\ C23_DebugEnabled
    /\ C23_DebugNotes = {}

\* constructor and start present, debug logging not enabled: one note
C23_WitnessNote ==
    /\ C20_Traditional
    /\ \E f \in C19_Files : SrcConstructs(f)
    /\ \E f \in C19_Files : SrcStarts(f)
    /\ ~C23_DebugEnabled
    /\ Cardinality(C23_DebugNotes) = 1

\* the DI path ran: some file uses the SDK and some file holds a DI marker
C24_DiPath ==
    /\ pc = "returned_android"
    /\ \E f \in C19_Files : SrcUsesSdk(f)
    /\ \E f \in C19_Files : SrcHasDiMarker(f)

\* what the DI path looks for: a provider declaration of the SDK type in a
\* DI file, a manager file with a start call, a DI-managed application
\* class with an initialization-shaped call
C24_Provider(f) ==
    /\ SrcHasDiMarker(f)
    /\ \E i \in 1..Len(f.text) :
          /\ OccursAt("@Provides", f.text, i)
          /\ Contains(SubSeq(f.text, i + 9, Len(f.text)), "TrustArc")

C24_Manager(f) ==
    \E name \in {"ConsentManager", "TrustArcManager", "SdkManager"} : Contains(f.text, name)

C24_ManagerWithStart(f) == C24_Manager(f) /\ SearchLitParen(".start", f.text)

C24_ApplicationInit(f) ==
    /\ IsApplicationFile(f)
    /\ Contains(f.text, "@HiltAndroidApp")
    /\ \E word \in {"init", "start"} : Contains(Lower(f.text), word)

C24_MissingStart ==
    /\ \E f \in C19_Files : C24_Provider(f)
    /\ ~\E f \in C19_Files : C24_ManagerWithStart(f)
    /\ ~\E f \in C19_Files : C24_ApplicationInit(f)
    /\ ~\E f \in C19_Files : SrcStarts(f)

C24_Errors == {k \in 1..Len(ret) : ret[k].severity = ERROR}

\* C24: on the DI path the result holds exactly one error, "TrustArc
\* provided via DI but start() never called", when a provider declaration
\* exists, no manager file with a start call and no application initializer
\* was found and no SDK-usage file holds a start call; in every other
\* situation of the DI path it holds no error.
C24_DiMissingStart ==
    C24_DiPath =>
        IF C24_MissingStart
        THEN /\ Cardinality(C24_Errors) = 1
             /\ \A k \in C24_Errors :
                   ret[k].message = "TrustArc provided via DI but start() never called"
        ELSE C24_Errors = {}

\* a provider and nothing that starts the SDK: the error
C24_Witness ==
    /\ C24_DiPath
    /\ C24_MissingStart
    /\ Cardinality(C24_Errors) = 1

\* a provider, no manager and no application initializer, and a start call
\* in an SDK-usage file: no error
C24_WitnessStarted ==
    /\ C24_DiPath
    /\ \E f \in C19_Files : C24_Provider(f)
    /\ ~\E f \in C19_Files : C24_ManagerWithStart(f)
    /\ ~\E f \in C19_Files : C24_ApplicationInit(f)
    /\ \E f \in C19_Files : SrcStarts(f)
    /\ C24_Errors = {}

\* the successes reported for an injected manager
C25_ManagerSuccesses ==
    {k \in 1..Len(ret) :
        /\ ret[k].severity = SUCCESS
        /\ ret[k].category = "Architecture"
        /\ ret[k].message = "Initialization encapsulated in injected manager class"}

C25_InjectedManager(f) == C24_ManagerWithStart(f) /\ Contains(f.text, "@Inject")

\* C25: on the DI path the result holds exactly one success for an injected
\* manager when some manager file holds both a start call and @Inject,
\* whatever other manager files there are and in whatever order, and none
\* when no manager file holds both.
C25_ManagerSuccess ==
    C24_DiPath =>
        Cardinality(C25_ManagerSuccesses)
            = (IF \E f \in C19_Files : C25_InjectedManager(f) THEN 1 ELSE 0)

\* the successes of the DI path: provider declaration, injected manager,
\* DI-managed application initializer
C26_Successes ==
    {k \in 1..Len(ret) :
        /\ ret[k].severity = SUCCESS
        /\ ret[k].message \in {"TrustArc provided via Dependency Injection",
                               "Initialization encapsulated in injected manager class",
                               "SDK initialized in Application class"}}

\* C26: on the DI path the result holds exactly one debug-logging note when
\* at least one success of the DI path was emitted and no SDK-usage file
\* enables debug logging, and no note otherwise.
C26_DiDebugNote ==
    C24_DiPath =>
        Cardinality(C23_DebugNotes)
            = (IF C26_Successes # {} /\ ~C23_DebugEnabled THEN 1 ELSE 0)

\* the source files a platform's usage check reads: the readable files with
\* the platform's extensions (for React Native, outside node_modules)
C27_Extensions(plat) ==
    CASE plat = ANDROID -> {".kt", ".java"}
      [] plat = IOS -> {".swift"}
      [] plat = REACT_NATIVE -> {".js", ".jsx", ".ts", ".tsx"}
      [] plat = FLUTTER -> {".dart"}

C27_Sources(plat, t) ==
    {t[k] : k \in {j \in 1..Len(t) :
        /\ t[j].readable
        /\ \E ext \in C27_Extensions(plat) : EndsWith(t[j].path, ext)
        /\ plat = REACT_NATIVE => ~Contains(t[j].path, "node_modules")}}

\* a source file that references the SDK, as each platform understands it
C27_References(plat, f) ==
    CASE plat = ANDROID -> SrcUsesSdk(f)
      [] plat = IOS -> Contains(f.text, "TrustArc") /\ Contains(f.text, "import trustarc_consent_sdk")
      [] plat \in {REACT_NATIVE, FLUTTER} -> Contains(Lower(f.text), "trustarc")

C27_Implementation == {k \in 1..Len(ret) : ret[k].category = "Implementation"}

C27_NoUsage ==
    /\ pc = "returned_scan"
    /\ ~\E f \in C27_Sources(arg.platform, arg.tree) : C27_References(arg.platform, f)

\* C27: a scan that finds no source file referencing the SDK appends exactly
\* one Implementation issue, with a suggestion, a warning on React Native and
\* Flutter and an error on iOS and Android; it is the last issue of the scan
\* and no Initialization or Architecture issue is reported. A scan that finds
\* such a file appends no Implementation issue.
C27_UsageStrictness ==
    pc = "returned_scan" =>
        IF C27_NoUsage
        THEN /\ C27_Implementation = {Len(ret)}
             /\ ret[Len(ret)].suggestion # None
             /\ ret[Len(ret)].severity
                    = (IF arg.platform \in {REACT_NATIVE, FLUTTER} THEN WARNING ELSE ERROR)
             /\ \A k \in 1..Len(ret) : ret[k].category \notin {"Initialization", "Architecture"}
        ELSE C27_Implementation = {}

\* an iOS scan of a tree with Swift files of which none references the SDK
C27_Witness ==
    /\ C27_NoUsage
    /\ arg.platform = IOS
    /\ C27_Sources(IOS, arg.tree) # {}
    /\ C27_Implementation = {Len(ret)}
    /\ ret[Len(ret)].severity = ERROR

\* a React Native scan with no usage: the warning
C27_WitnessWarning ==
    /\ C27_NoUsage
    /\ arg.platform = REACT_NATIVE
    /\ C27_Sources(REACT_NATIVE, arg.tree) # {}
    /\ ret[Len(ret)].severity = WARNING
    /\ ret[Len(ret)].category = "Implementation"

\* C28: a report whose sdk_found is false holds at least one error, its
\* score is at most 50, and the run that printed it exits with status 1.
C28_NotFoundNeverHealthy ==
    (pc \in {"reported", "exited"} /\ ~report.sdk_found) =>
        /\ CountSev(report.issues, ERROR) >= 1
        /\ report.score <= 50
        /\ pc = "exited" => exit_code = 1

\* a detected platform, the dependency not found, the best score it can
\* have, the run exited
C28_Witness ==
    /\ pc = "exited"
    /\ report.platform # UNKNOWN
    /\ ~report.sdk_found
    /\ report.score = 50
    /\ exit_code = 1

\* the Swift files that use the SDK, and the two calls looked for in them
C29_SdkFiles ==
    {f \in {tree[k] : k \in 1..Len(tree)} :
        /\ f.readable
        /\ EndsWith(f.path, ".swift")
        /\ Contains(f.text, "TrustArc")
        /\ Contains(f.text, "import trustarc_consent_sdk")}

C29_BothCalls ==
    /\ \E f \in C29_SdkFiles : SearchLitParen(".setDomain", f.text)
    /\ \E f \in C29_SdkFiles : SearchLitSpaceChar(".start", f.text, "{")

C29_Initialization ==
    {k \in 1..Len(report.issues) : report.issues[k].category = "Initialization"}

\* C29: an iOS report of a project with a Swift file that uses the SDK holds
\* exactly one Initialization issue, a success when a setDomain call and a
\* start call both occur among the SDK files and an error otherwise, and
\* its initialization_found is true exactly when both calls occur.
C29_IosInitialization ==
    (pc = "reported" /\ report.platform = IOS /\ C29_SdkFiles # {}) =>
        /\ Cardinality(C29_Initialization) = 1
        /\ \A k \in C29_Initialization :
              report.issues[k].severity = (IF C29_BothCalls THEN SUCCESS ELSE ERROR)
        /\ report.initialization_found <=> C29_BothCalls

\* the two calls in two files, neither of which holds both
C29_Witness ==
    /\ pc = "reported"
    /\ report.platform = IOS
    /\ C29_BothCalls
    /\ ~\E f \in C29_SdkFiles :
          SearchLitParen(".setDomain", f.text) /\ SearchLitSpaceChar(".start", f.text, "{")
    /\ report.initialization_found

\* C30: whenever some source file uses the SDK, the Android initialization
\* analysis appends at least one issue, and when a constructor site exists
\* and no start call does, one of its issues is an Initialization error,
\* on the DI path as on the traditional path.
C30_AlwaysReported ==
    (pc = "returned_android" /\ \E f \in C19_Files : SrcUsesSdk(f)) =>
        /\ Len(ret) >= 1
        /\ ((\E f \in C19_Files : SrcConstructs(f)) /\ ~\E f \in C19_Files : SrcStarts(f)) =>
              \E k \in 1..Len(ret) :
                  ret[k].severity = ERROR /\ ret[k].category = "Initialization"

=============================================================================
